---------------------------- MODULE Spec2Model ----------------------------
(***************************************************************************)
(* A model of the drone-network simulation engine (src/src/backend):       *)
(* the delayed signal queue, the RX module, the device state machine and   *)
(* the tick orchestrator (NetworkModel).                                   *)
(*                                                                         *)
(* Representation choices:                                                 *)
(*  - Millisecond, DeviceId, PowerUnit are naturals as in the source.      *)
(*  - A SignalLevel is its strength as a fixed-point natural with two      *)
(*    decimals (strength 1.0 is 100); its colour is derived from the       *)
(*    strength thresholds exactly as SignalLevelInner::from does.          *)
(*  - A Point3D is a record [x, z] of integers (metres); y is always 0.    *)
(*  - Option<T> is a sequence of length at most one.                      *)
(*  - rand::random_bool is a nondeterministic boolean input.               *)
(*  - HashMap iteration order is a nondeterministic order input.           *)
(***************************************************************************)
EXTENDS Integers, Sequences, FiniteSets, TLC

VARIABLES
    signal_queue,   \* SignalQueue: Seq of [time, signal, delay_map]
    op,             \* the last operation called, its arguments and result
    rx_module,      \* RXModule: [max_signal_levels, received_signals]
    drone,          \* a Device on its own
    network_model,  \* NetworkModel, but for its signal_queue
    pc,             \* the position inside NetworkModel::update
    tick            \* what the current NetworkModel::update has done so far

net_vars == <<network_model, pc, tick>>

vars == <<signal_queue, op, rx_module, drone, network_model, pc, tick>>

\* Option<T>: None is the empty sequence, Some(v) the one-element sequence.
None == <<>>
Some(v) == <<v>>
is_some(o) == o # <<>>
unwrap(o) == o[1]

\* the elements of a finite set in some order (a HashMap iteration order)
SetToSeq(S) ==
    LET F[T \in SUBSET S] ==
            IF T = {} THEN <<>>
            ELSE LET x == CHOOSE y \in T : TRUE IN <<x>> \o F[T \ {x}]
    IN F[S]

-----------------------------------------------------------------------------
(* Program constants *)

BROADCAST_ID == 0
ITERATION_TIME == 50
GPS_L1_FREQUENCY == 1575
CONTROL_FREQUENCY == 2400

-----------------------------------------------------------------------------
(* Bounds of the model *)

MaxQueueLen == 2      \* entries held by the queue in SpecQueue
MaxDeviceId == 2      \* device ids are 1..MaxDeviceId

DeviceIds == 1..MaxDeviceId

-----------------------------------------------------------------------------
(* SignalLevel (signal/level.rs, signal/level/inner.rs, signal/strength.rs) *)

MAX_BLACK_SIGNAL_STRENGTH == 100
MAX_RED_SIGNAL_STRENGTH == 2000
MAX_YELLOW_SIGNAL_STRENGTH == 5000
GREEN_SIGNAL_STRENGTH == 10000

BLACK_SIGNAL_LEVEL == MAX_BLACK_SIGNAL_STRENGTH
RED_SIGNAL_LEVEL == MAX_RED_SIGNAL_STRENGTH
YELLOW_SIGNAL_LEVEL == MAX_YELLOW_SIGNAL_STRENGTH
GREEN_SIGNAL_LEVEL == GREEN_SIGNAL_STRENGTH

\* SignalLevelInner::from(SignalStrength): the colour of a strength
is_green(level) == level > MAX_YELLOW_SIGNAL_STRENGTH
is_yellow(level) == ~is_green(level) /\ level > MAX_RED_SIGNAL_STRENGTH
is_red(level) ==
    ~is_green(level) /\ ~is_yellow(level) /\ level > MAX_BLACK_SIGNAL_STRENGTH
is_black(level) == level <= MAX_BLACK_SIGNAL_STRENGTH

-----------------------------------------------------------------------------
(* Signal (signal.rs) *)

Signal(source_id, destination_id, data, frequency, level) ==
    [source_id |-> source_id, destination_id |-> destination_id,
     data |-> data, frequency |-> frequency, level |-> level]

\* mutant: the payload is kept when a signal is turned into noise
to_noise_kept(signal) == signal

to_noise(signal) == [signal EXCEPT !.data = None]

-----------------------------------------------------------------------------
(* SignalQueue (signal/queue.rs) *)

\* delay_map.values().max().unwrap_or(&0)
longest_delay(delay_map) ==
    LET values == {delay_map[k] : k \in DOMAIN delay_map}
    IN IF values = {} THEN 0
       ELSE CHOOSE m \in values : \A v \in values : v <= m

any_delay_for(device_id, delay_map) ==
    IF device_id \in DOMAIN delay_map THEN delay_map[device_id]
    ELSE IF BROADCAST_ID \in DOMAIN delay_map THEN delay_map[BROADCAST_ID]
    ELSE 0

SeqFilter(s, Keep(_)) ==
    LET F[i \in 0..Len(s)] ==
            IF i = 0 THEN <<>>
            ELSE IF Keep(s[i]) THEN Append(F[i - 1], s[i]) ELSE F[i - 1]
    IN F[Len(s)]

SeqMap(s, G(_)) == [i \in 1..Len(s) |-> G(s[i])]

\* mutant: signals whose due time has already passed are returned too
get_current_signals_for_late(queue, destination_id, current_time) ==
    LET Due(entry) ==
            /\ current_time
                 >= entry.time + any_delay_for(destination_id, entry.delay_map)
            /\ entry.signal.destination_id = destination_id
        EntrySignal(entry) == entry.signal
    IN SeqMap(SeqFilter(queue, Due), EntrySignal)

get_current_signals_for(queue, destination_id, current_time) ==
    LET Due(entry) ==
            /\ current_time
                 = entry.time + any_delay_for(destination_id, entry.delay_map)
            /\ entry.signal.destination_id = destination_id
        EntrySignal(entry) == entry.signal
    IN SeqMap(SeqFilter(queue, Due), EntrySignal)

\* Vec::sort_by_key is a stable sort: an insertion sort by key.
InsertByTime(sorted, entry) ==
    LET after == {i \in 1..Len(sorted) : sorted[i].time > entry.time}
        k == IF after = {} THEN Len(sorted) + 1
             ELSE CHOOSE i \in after : \A j \in after : i <= j
    IN SubSeq(sorted, 1, k - 1) \o <<entry>> \o SubSeq(sorted, k, Len(sorted))

sort_by_time(s) ==
    LET F[i \in 0..Len(s)] ==
            IF i = 0 THEN <<>> ELSE InsertByTime(F[i - 1], s[i])
    IN F[Len(s)]

\* mutant: the new entry goes before the entries of its own creation time
add_entry_before_equal(queue, time, signal, delay_map) ==
    LET earlier == Cardinality({ i \in DOMAIN queue : queue[i].time < time })
    IN SubSeq(queue, 1, earlier)
           \o << [time |-> time, signal |-> signal, delay_map |-> delay_map] >>
           \o SubSeq(queue, earlier + 1, Len(queue))

add_entry(queue, time, signal, delay_map) ==
    sort_by_time(Append(queue,
        [time |-> time, signal |-> signal, delay_map |-> delay_map]))

\* mutant: an entry is kept through the tick of its longest delay
remove_old_signals_inclusive(queue, current_time) ==
    LET Keep(entry) == current_time <= entry.time + longest_delay(entry.delay_map)
    IN SeqFilter(queue, Keep)

\* mutant: an entry is removed one iteration before its longest delay ends
remove_old_signals_early(queue, current_time) ==
    LET Keep(entry) ==
            current_time + ITERATION_TIME
                < entry.time + longest_delay(entry.delay_map)
    IN SeqFilter(queue, Keep)

remove_old_signals(queue, current_time) ==
    LET Keep(entry) == current_time < entry.time + longest_delay(entry.delay_map)
    IN SeqFilter(queue, Keep)

-----------------------------------------------------------------------------
(* RXModule (device/systems/trx/rx.rs) *)

RXModule(max_signal_levels) ==
    [max_signal_levels |-> max_signal_levels, received_signals |-> <<>>]

\* By default a non-functioning RXModule.
DefaultRXModule == RXModule(<<>>)

receives_signal_on(rx, frequency) ==
    \E i \in DOMAIN rx.received_signals :
        /\ rx.received_signals[i][2].frequency = frequency
        /\ is_some(rx.received_signals[i][2].data)

\* position of the first buffered signal on the frequency, 0 when none
received_index_on(rx, frequency) ==
    LET on == {i \in DOMAIN rx.received_signals :
                  rx.received_signals[i][2].frequency = frequency}
    IN IF on = {} THEN 0 ELSE CHOOSE i \in on : \A j \in on : i <= j

received_signal_on(rx, frequency) ==
    LET i == received_index_on(rx, frequency)
    IN IF i = 0 THEN None ELSE Some(rx.received_signals[i])

max_signal_level_on(rx, frequency) ==
    IF frequency \notin DOMAIN rx.max_signal_levels THEN None
    ELSE IF is_black(rx.max_signal_levels[frequency]) THEN None
    ELSE Some(rx.max_signal_levels[frequency])

\* mutant: the buffered signal is not removed before the push
remove_current_received_signal_on_kept(rx, frequency) == rx

remove_current_received_signal_on(rx, frequency) ==
    LET i == received_index_on(rx, frequency)
        rs == rx.received_signals
    IN IF i = 0 THEN rx
       ELSE [rx EXCEPT !.received_signals =
                SubSeq(rs, 1, i - 1) \o SubSeq(rs, i + 1, Len(rs))]

\* mutant: the comparison is reversed
current_is_weaker(current_level, level) == current_level < level

\* rx.rs:106, the test that rejects the incoming signal as too weak
current_is_stronger(current_level, level) == current_level > level

\* mutant: a received signal replaces the buffered one whatever their levels
rx_receive_signal_last_wins(rx, signal, time, is_received) ==
    LET max_signal_level == max_signal_level_on(rx, signal.frequency)
        removed == remove_current_received_signal_on(rx, signal.frequency)
    IN IF ~is_some(max_signal_level)
       THEN [rx |-> rx, result |-> "NotListeningOnFrequency"]
       ELSE IF ~is_received
       THEN [rx |-> rx, result |-> "SignalNotReceived"]
       ELSE IF signal.level > unwrap(max_signal_level)
       THEN [rx |-> [removed EXCEPT !.received_signals =
                        Append(@, <<time, to_noise(signal)>>)],
             result |-> "NoiseReceived"]
       ELSE [rx |-> [removed EXCEPT !.received_signals =
                        Append(@, <<time, signal>>)],
             result |-> "Ok"]

\* mutant: the buffered signal is removed before the signal is known to be
\* received
rx_receive_signal_remove_early(rx, signal, time, is_received) ==
    LET max_signal_level == max_signal_level_on(rx, signal.frequency)
        current == received_signal_on(rx, signal.frequency)
        removed == remove_current_received_signal_on(rx, signal.frequency)
    IN IF ~is_some(max_signal_level)
       THEN [rx |-> rx, result |-> "NotListeningOnFrequency"]
       ELSE IF /\ is_some(current)
               /\ current_is_stronger(unwrap(current)[2].level, signal.level)
       THEN [rx |-> rx, result |-> "SignalTooWeak"]
       ELSE IF ~is_received
       THEN [rx |-> removed, result |-> "SignalNotReceived"]
       ELSE IF signal.level > unwrap(max_signal_level)
       THEN [rx |-> [removed EXCEPT !.received_signals =
                        Append(@, <<time, to_noise(signal)>>)],
             result |-> "NoiseReceived"]
       ELSE [rx |-> [removed EXCEPT !.received_signals =
                        Append(@, <<time, signal>>)],
             result |-> "Ok"]

\* `is_received` is the outcome of signal_is_received (rand::random_bool).
rx_receive_signal(rx, signal, time, is_received) ==
    LET max_signal_level == max_signal_level_on(rx, signal.frequency)
        current == received_signal_on(rx, signal.frequency)
        removed == remove_current_received_signal_on(rx, signal.frequency)
    IN IF ~is_some(max_signal_level)
       THEN [rx |-> rx, result |-> "NotListeningOnFrequency"]
       ELSE IF /\ is_some(current)
               /\ current_is_stronger(unwrap(current)[2].level, signal.level)
       THEN [rx |-> rx, result |-> "SignalTooWeak"]
       ELSE IF ~is_received
       THEN [rx |-> rx, result |-> "SignalNotReceived"]
       ELSE IF signal.level > unwrap(max_signal_level)
       THEN [rx |-> [removed EXCEPT !.received_signals =
                        Append(@, <<time, to_noise(signal)>>)],
             result |-> "NoiseReceived"]
       ELSE [rx |-> [removed EXCEPT !.received_signals =
                        Append(@, <<time, signal>>)],
             result |-> "Ok"]

clear_signals(rx) == [rx EXCEPT !.received_signals = <<>>]

-----------------------------------------------------------------------------
(* Geometry (mathphysics.rs, mathphysics/point.rs) *)

Point3D(x, z) == [x |-> x, z |-> z]
DefaultPoint == Point3D(0, 0)

Abs(n) == IF n < 0 THEN -n ELSE n
Sign(n) == IF n < 0 THEN -1 ELSE IF n > 0 THEN 1 ELSE 0

\* the square of Position::distance_to
distance_squared(p, q) == (p.x - q.x) * (p.x - q.x) + (p.z - q.z) * (p.z - q.z)

-----------------------------------------------------------------------------
(* Task (task.rs) *)

Task(task_type, destination) ==
    [task_type |-> task_type, destination |-> destination]

DefaultTask == Task("Undefined", None)

-----------------------------------------------------------------------------
(* PowerSystem (device/systems/power.rs) *)

PowerSystem(max_power, power) == [max_power |-> max_power, power |-> power]

DefaultPowerSystem == PowerSystem(0, 0)

saturating_sub(a, b) == IF a > b THEN a - b ELSE 0

\* mutant: the difference of power and consumption, whichever is greater
consume_power_abs_diff(power_system, power_to_consume) ==
    LET power == Abs(power_system.power - power_to_consume)
    IN [power_system |-> [power_system EXCEPT !.power = power],
        result |-> IF power = 0 THEN "NoPowerLeft" ELSE "Ok"]

consume_power(power_system, power_to_consume) ==
    LET power == saturating_sub(power_system.power, power_to_consume)
    IN [power_system |-> [power_system EXCEPT !.power = power],
        result |-> IF power = 0 THEN "NoPowerLeft" ELSE "Ok"]

-----------------------------------------------------------------------------
(* MovementSystem (device/systems/movement.rs).  Speeds and velocities are *)
(* in metres per iteration; a velocity is its displacement vector.         *)

MovementSystem(max_speed) ==
    [max_speed |-> max_speed, position |-> DefaultPoint,
     velocity |-> DefaultPoint]

DefaultMovementSystem == MovementSystem(0)

is_disabled(movement_system) == movement_system.max_speed = 0

set_position(movement_system, position) ==
    [movement_system EXCEPT !.position = position]

\* the unit vector towards the destination scaled to max_speed (exact for
\* the axis-parallel directions the model uses)
set_direction(movement_system, destination) ==
    [movement_system EXCEPT !.velocity =
        Point3D(
            Sign(destination.x - movement_system.position.x)
                * movement_system.max_speed,
            Sign(destination.z - movement_system.position.z)
                * movement_system.max_speed)]

-----------------------------------------------------------------------------
(* TXModule, TRXSystem (device/systems/trx.rs, signal/level.rs).  A TX      *)
(* module maps a frequency to the area radius r its level was built from   *)
(* (SignalLevel::from_area); SignalLevel::at of that level at distance d   *)
(* is then (r / d)^2, and r^2 within a wave length.                        *)

TRXSystem(tx_module, rx) == [tx_module |-> tx_module, rx_module |-> rx]

DefaultTRXSystem == TRXSystem(<<>>, DefaultRXModule)

level_at(radius, dist_squared) ==
    IF dist_squared = 0 THEN 100 * radius * radius
    ELSE (100 * radius * radius) \div dist_squared

tx_signal_level_at(trx_system, dist_squared, frequency) ==
    IF frequency \notin DOMAIN trx_system.tx_module THEN None
    ELSE LET level == level_at(trx_system.tx_module[frequency], dist_squared)
         IN IF is_black(level) THEN None ELSE Some(level)

-----------------------------------------------------------------------------
(* Device (device.rs) *)

MOVEMENT_POWER_CONSUMPTION == 5
PASSIVE_POWER_CONSUMPTION == 1
PROCESSING_POWER_CONSUMPTION == 5
DESTINATION_RADIUS == 5

\* mutant: the counter is read and left as it is
generate_device_id_without_add(free_device_id) ==
    [id |-> free_device_id, free_device_id |-> free_device_id]

\* FREE_DEVICE_ID.fetch_add(1, Ordering::SeqCst): one atomic step that
\* returns the value the counter had
generate_device_id(free_device_id) ==
    [id |-> free_device_id, free_device_id |-> free_device_id + 1]

Device(id, real_position, task, power_system, movement_system, trx_system, vulnerabilities, signal_loss_response) ==
    [id |-> id,
     current_time |-> 0,
     real_position_in_meters |-> real_position,
     task |-> task,
     power_system |-> power_system,
     movement_system |-> movement_system,
     trx_system |-> trx_system,
     infection_states |-> [m \in vulnerabilities |-> <<0, "Vulnerable">>],
     signal_loss_response |-> signal_loss_response]

is_infected_with(device, malware) ==
    /\ malware \in DOMAIN device.infection_states
    /\ device.infection_states[malware][2] = "Infected"

\* the (infection time, malware) pairs of the infections
malware_infections(device) ==
    { <<device.infection_states[m][1], m>> :
        m \in {n \in DOMAIN device.infection_states :
                  device.infection_states[n][2] = "Infected"} }

is_shut_down(device) == device.power_system.power = 0

device_tx_signal_level_at(device, receiver_position, frequency) ==
    tx_signal_level_at(
        device.trx_system,
        distance_squared(device.real_position_in_meters, receiver_position),
        frequency)

transmits_at_position(device, position, frequency) ==
    is_some(device_tx_signal_level_at(device, position, frequency))

\* mutant: the level is taken at half the distance, as if through a relay
create_signal_for_relayed(device, receiver, data, frequency) ==
    LET level == tx_signal_level_at(
                     device.trx_system,
                     distance_squared(device.real_position_in_meters,
                                      receiver.real_position_in_meters) \div 4,
                     frequency)
    IN IF ~is_some(level) THEN None
       ELSE Some(Signal(device.id, receiver.id, data, frequency, unwrap(level)))

\* Err(RXOutOfRange) is None
create_signal_for(device, receiver, data, frequency) ==
    LET level == device_tx_signal_level_at(
                     device, receiver.real_position_in_meters, frequency)
    IN IF ~is_some(level) THEN None
       ELSE Some(Signal(device.id, receiver.id, data, frequency, unwrap(level)))

device_receives_signal_on(device, frequency) ==
    receives_signal_on(device.trx_system.rx_module, frequency)

\* mutant: the destination of the signal is not looked at
device_receive_signal_unaddressed(device, signal, time, is_received) ==
    LET out == rx_receive_signal(
                   device.trx_system.rx_module, signal, time, is_received)
    IN [device |-> [device EXCEPT !.trx_system.rx_module = out.rx],
        result |-> out.result]

device_receive_signal(device, signal, time, is_received) ==
    IF /\ signal.destination_id # BROADCAST_ID
       /\ device.id # signal.destination_id
    THEN [device |-> device, result |-> "WrongSignalDestination"]
    ELSE LET out == rx_receive_signal(
                        device.trx_system.rx_module, signal, time, is_received)
         IN [device |-> [device EXCEPT !.trx_system.rx_module = out.rx],
             result |-> out.result]

\* mutant: the TRX system, and with it the receive buffer, is kept
selfdestruction_keeping_trx(device) ==
    [device EXCEPT !.power_system = DefaultPowerSystem,
                   !.movement_system = DefaultMovementSystem]

selfdestruction(device) ==
    [device EXCEPT !.power_system = DefaultPowerSystem,
                   !.movement_system = DefaultMovementSystem,
                   !.trx_system = DefaultTRXSystem]

\* mutant: the device that ran out of power keeps its systems
try_consume_power_keeping_systems(device, power) ==
    LET out == consume_power(device.power_system, power)
        consumed == [device EXCEPT !.power_system = out.power_system]
    IN [device |-> consumed, result |-> out.result]

try_consume_power(device, power) ==
    LET out == consume_power(device.power_system, power)
        consumed == [device EXCEPT !.power_system = out.power_system]
    IN IF out.result = "Ok"
       THEN [device |-> consumed, result |-> "Ok"]
       ELSE [device |-> selfdestruction(consumed), result |-> out.result]

infection_state_on(device, malware) ==
    IF malware \in DOMAIN device.infection_states
    THEN device.infection_states[malware][2]
    ELSE "Patched"

\* mutant: the infection is recorded whatever the current state is
process_malware_unconditional(device, malware) ==
    [device EXCEPT !.infection_states =
        (malware :> <<device.current_time, "Infected">>) @@ @]

process_malware(device, malware) ==
    IF infection_state_on(device, malware) = "Vulnerable"
    THEN [device EXCEPT !.infection_states[malware] =
             <<device.current_time, "Infected">>]
    ELSE device

process_data(device, data) ==
    CASE data.kind = "GPS" ->
            [device EXCEPT !.movement_system = set_position(@, data.position)]
      [] data.kind = "Malware" -> process_malware(device, data.malware)
      [] data.kind = "SetTask" -> [device EXCEPT !.task = data.task]

\* the `?` stops the loop at the first NoPowerLeft
process_received_signals(device) ==
    LET signals == device.trx_system.rx_module.received_signals
        process(data, out) ==
            IF out.result # "Ok" THEN out
            ELSE [device |-> process_data(out.device, data), result |-> "Ok"]
        step(prev, signal) ==
            IF prev.result # "Ok" THEN prev
            ELSE IF ~is_some(signal.data) THEN prev
            ELSE process(unwrap(signal.data),
                         try_consume_power(prev.device,
                                           PROCESSING_POWER_CONSUMPTION))
        Step[i \in 0..Len(signals)] ==
            IF i = 0 THEN [device |-> device, result |-> "Ok"]
            ELSE step(Step[i - 1], signals[i][2])
    IN Step[Len(signals)]

at_destination(device, destination) ==
    distance_squared(device.real_position_in_meters, destination)
        <= DESTINATION_RADIUS * DESTINATION_RADIUS

try_complete_task(device) ==
    IF ~is_some(device.task.destination) THEN device
    ELSE IF /\ device.task.task_type = "Attack"
            /\ at_destination(device, unwrap(device.task.destination))
    THEN selfdestruction(device)
    ELSE IF /\ device.task.task_type = "Reposition"
            /\ at_destination(device, unwrap(device.task.destination))
    THEN [device EXCEPT !.task = DefaultTask]
    ELSE device

\* the velocity with z zeroed, scaled to max_speed
set_horizontal_velocity(device) ==
    [device EXCEPT !.movement_system.velocity =
        Point3D(Sign(@.x) * device.movement_system.max_speed, 0)]

\* mutant: the task is completed without a GPS fix as well
process_task_without_gps(device) ==
    IF is_some(device.task.destination)
    THEN try_complete_task(
             [device EXCEPT !.movement_system =
                 set_direction(@, unwrap(device.task.destination))])
    ELSE device

process_task(device) ==
    LET gps_is_connected == device_receives_signal_on(device, GPS_L1_FREQUENCY)
    IN IF is_some(device.task.destination) /\ gps_is_connected
       THEN try_complete_task(
                [device EXCEPT !.movement_system =
                    set_direction(@, unwrap(device.task.destination))])
       ELSE IF is_some(device.task.destination)
       THEN set_horizontal_velocity(device)
       ELSE device

\* mutant: Shutdown is treated like Ignore
handle_signal_loss_without_shutdown(device) ==
    LET response == device.signal_loss_response
        upward_point == [device.real_position_in_meters EXCEPT !.z = @ + 1]
    IN CASE response.kind = "Ascend" ->
               [device EXCEPT
                   !.movement_system = set_direction(@, upward_point),
                   !.task = Task("Reconnect", Some(upward_point))]
         [] response.kind = "Hover" ->
               process_task(
                   [device EXCEPT !.task =
                       Task("Reconnect", Some(device.real_position_in_meters))])
         [] response.kind \in {"Ignore", "Shutdown"} -> process_task(device)
         [] response.kind = "ReturnToHome" ->
               process_task(
                   [device EXCEPT !.task =
                       Task("Reconnect", Some(response.home_point))])

\* mutant: ReturnToHome reconnects at the current position, not at home
handle_signal_loss_home_ignored(device) ==
    LET response == device.signal_loss_response
        upward_point == [device.real_position_in_meters EXCEPT !.z = @ + 1]
    IN CASE response.kind = "Ascend" ->
               [device EXCEPT
                   !.movement_system = set_direction(@, upward_point),
                   !.task = Task("Reconnect", Some(upward_point))]
         [] response.kind \in {"Hover", "ReturnToHome"} ->
               process_task(
                   [device EXCEPT !.task =
                       Task("Reconnect", Some(device.real_position_in_meters))])
         [] response.kind = "Ignore" -> process_task(device)
         [] response.kind = "Shutdown" -> selfdestruction(device)

handle_signal_loss(device) ==
    LET response == device.signal_loss_response
        upward_point == [device.real_position_in_meters EXCEPT !.z = @ + 1]
    IN CASE response.kind = "Ascend" ->
               [device EXCEPT
                   !.movement_system = set_direction(@, upward_point),
                   !.task = Task("Reconnect", Some(upward_point))]
         [] response.kind = "Hover" ->
               process_task(
                   [device EXCEPT !.task =
                       Task("Reconnect", Some(device.real_position_in_meters))])
         [] response.kind = "Ignore" -> process_task(device)
         [] response.kind = "ReturnToHome" ->
               process_task(
                   [device EXCEPT !.task =
                       Task("Reconnect", Some(response.home_point))])
         [] response.kind = "Shutdown" -> selfdestruction(device)

update_real_position(device) ==
    IF is_disabled(device.movement_system)
    THEN [device |-> device, result |-> "DisabledSystem"]
    ELSE LET out == try_consume_power(device, MOVEMENT_POWER_CONSUMPTION)
         IN IF out.result # "Ok" THEN out
            ELSE [device |->
                     [out.device EXCEPT !.real_position_in_meters =
                         Point3D(@.x + out.device.movement_system.velocity.x,
                                 @.z + out.device.movement_system.velocity.z)],
                  result |-> "Ok"]

\* the result of try_consume_power is discarded (`let _ =`)
handle_malware_infections(device) ==
    LET infections == SetToSeq(malware_infections(device))
        step(prev, infection_time, malware) ==
            IF prev.current_time # infection_time + malware.infection_delay
            THEN prev
            ELSE IF malware.malware_type.kind = "DoS"
            THEN try_consume_power(prev, malware.malware_type.lost_power).device
            ELSE prev
        Step[i \in 0..Len(infections)] ==
            IF i = 0 THEN device
            ELSE step(Step[i - 1], infections[i][1], infections[i][2])
    IN Step[Len(infections)]

\* the device after each step of update(), as if no `?` had returned early
update_steps(device) ==
    LET task_step(processed) ==
            IF device_receives_signal_on(processed, CONTROL_FREQUENCY)
            THEN process_task(processed)
            ELSE handle_signal_loss(processed)
        clear_step(tasked) ==
            [tasked EXCEPT !.trx_system.rx_module = clear_signals(@)]
        move_step(passive, infected, processed, cleared) ==
            [passive |-> passive, infected |-> infected,
             processed |-> processed, cleared |-> cleared,
             moved |-> update_real_position(cleared)]
        process_step(passive, infected, processed) ==
            move_step(passive, infected, processed,
                      clear_step(task_step(processed.device)))
        infection_step(passive, infected) ==
            process_step(passive, infected, process_received_signals(infected))
        passive_step(passive) ==
            infection_step(passive, handle_malware_infections(passive.device))
    IN passive_step(try_consume_power(device, PASSIVE_POWER_CONSUMPTION))

device_update(device) ==
    LET result_of(steps) ==
            IF steps.passive.result # "Ok" THEN steps.passive
            ELSE IF steps.processed.result # "Ok" THEN steps.processed
            ELSE IF steps.moved.result # "Ok" THEN steps.moved
            ELSE [device |->
                     [steps.moved.device EXCEPT
                         !.current_time = @ + ITERATION_TIME],
                  result |-> "Ok"]
    IN result_of(update_steps(device))

-----------------------------------------------------------------------------
(* Distances and delays (mathphysics.rs) *)

\* Position::distance_to, rounded down to a whole metre
distance_between(p, q) ==
    LET n == distance_squared(p, q)
    IN CHOOSE r \in 0..n : r * r <= n /\ (r + 1) * (r + 1) > n

\* the multiplier is in milliseconds per metre: the source's multiplier
\* divided by the speed of light in metres per millisecond
delay_to(dist, multiplier) ==
    IF multiplier = 0 THEN 0
    ELSE LET delay == dist * multiplier
         IN delay - (delay % ITERATION_TIME)

-----------------------------------------------------------------------------
(* ConnectionGraph (connections.rs).  graph_map is a function from the     *)
(* directed edges <<from, to>> to their weights; its nodes are the        *)
(* endpoints of its edges.                                                 *)

ConnectionGraph(topology) == [graph_map |-> <<>>, topology |-> topology]

nodes(graph_map) ==
    {e[1] : e \in DOMAIN graph_map} \cup {e[2] : e \in DOMAIN graph_map}

contains_node(graph_map, id) == id \in nodes(graph_map)

add_edge(graph_map, a, b, weight) ==
    [e \in DOMAIN graph_map \cup {<<a, b>>} |->
        IF e = <<a, b>> THEN weight ELSE graph_map[e]]

\* mutant: only the edge from device1 to device2 is added
connect_devices_one_way(graph_map, device1, device2, frequency) ==
    IF device1.id = device2.id THEN graph_map
    ELSE LET dist == distance_between(device2.real_position_in_meters,
                                      device1.real_position_in_meters)
             level1 == device_tx_signal_level_at(
                           device1, device2.real_position_in_meters, frequency)
         IN IF is_some(level1)
            THEN add_edge(graph_map, device1.id, device2.id,
                          [distance |-> dist, level |-> unwrap(level1)])
            ELSE graph_map

\* mutant: the two devices are connected only when each reaches the other
connect_devices_mutual(graph_map, device1, device2, frequency) ==
    IF device1.id = device2.id THEN graph_map
    ELSE LET dist == distance_between(device2.real_position_in_meters,
                                      device1.real_position_in_meters)
             level1 == device_tx_signal_level_at(
                           device1, device2.real_position_in_meters, frequency)
             level2 == device_tx_signal_level_at(
                           device2, device1.real_position_in_meters, frequency)
         IN IF is_some(level1) /\ is_some(level2)
            THEN add_edge(add_edge(graph_map, device1.id, device2.id,
                                   [distance |-> dist, level |-> unwrap(level1)]),
                          device2.id, device1.id,
                          [distance |-> dist, level |-> unwrap(level2)])
            ELSE graph_map

connect_devices(graph_map, device1, device2, frequency) ==
    IF device1.id = device2.id THEN graph_map
    ELSE LET dist == distance_between(device2.real_position_in_meters,
                                      device1.real_position_in_meters)
             level1 == device_tx_signal_level_at(
                           device1, device2.real_position_in_meters, frequency)
             level2 == device_tx_signal_level_at(
                           device2, device1.real_position_in_meters, frequency)
             first == IF is_some(level1)
                      THEN add_edge(graph_map, device1.id, device2.id,
                                    [distance |-> dist, level |-> unwrap(level1)])
                      ELSE graph_map
         IN IF is_some(level2)
            THEN add_edge(first, device2.id, device1.id,
                          [distance |-> dist, level |-> unwrap(level2)])
            ELSE first

\* mutant: every pair of devices is connected, not only the central device
\* with each device
create_star_of_all_pairs(graph_map, central_device, device_map, frequency) ==
    LET pairs == SetToSeq((DOMAIN device_map) \X (DOMAIN device_map))
        Step[i \in 0..Len(pairs)] ==
            IF i = 0 THEN graph_map
            ELSE connect_devices(Step[i - 1], device_map[pairs[i][1]],
                                 device_map[pairs[i][2]], frequency)
    IN Step[Len(pairs)]

create_star(graph_map, central_device, device_map, frequency) ==
    LET ids == SetToSeq(DOMAIN device_map)
        Step[i \in 0..Len(ids)] ==
            IF i = 0 THEN graph_map
            ELSE connect_devices(Step[i - 1], central_device,
                                 device_map[ids[i]], frequency)
    IN Step[Len(ids)]

create_mesh(graph_map, device_map, frequency) ==
    LET pairs == SetToSeq((DOMAIN device_map) \X (DOMAIN device_map))
        Step[i \in 0..Len(pairs)] ==
            IF i = 0 THEN graph_map
            ELSE connect_devices(Step[i - 1], device_map[pairs[i][1]],
                                 device_map[pairs[i][2]], frequency)
    IN Step[Len(pairs)]

connections_update(connections, command_device_id, device_map, frequency) ==
    IF command_device_id \notin DOMAIN device_map
    THEN [connections EXCEPT !.graph_map = <<>>]
    ELSE IF connections.topology = "Star"
    THEN [connections EXCEPT !.graph_map =
             create_star(<<>>, device_map[command_device_id], device_map,
                         frequency)]
    ELSE [connections EXCEPT !.graph_map =
             create_mesh(<<>>, device_map, frequency)]

\* the shortest distances from source to every node it reaches; the
\* distances found so far are a set of <<node, distance>> pairs
dijkstra(graph_map, source) ==
    LET shortest(found) ==
            { c \in found : \A d \in found : d[1] = c[1] => c[2] <= d[2] }
        relax(found) ==
            shortest(
                found \cup
                { <<pe[2][2], pe[1][2] + graph_map[pe[2]].distance>> :
                    pe \in { qe \in found \X (DOMAIN graph_map) :
                                qe[2][1] = qe[1][1] } })
        reached(found) ==
            [n \in {c[1] : c \in found} |->
                (CHOOSE c \in found : c[1] = n)[2]]
        Relax[k \in 0..Cardinality(DOMAIN graph_map)] ==
            IF k = 0 THEN {<<source, 0>>} ELSE relax(Relax[k - 1])
    IN reached(Relax[Cardinality(DOMAIN graph_map)])

\* mutant: the longest edge, not the longest shortest path
diameter_of_edges(graph_map) ==
    LET values == { graph_map[e].distance : e \in DOMAIN graph_map } \cup {0}
    IN CHOOSE a \in values : \A b \in values : a >= b

\* the fold of max over the values of every node's dijkstra map, from 0
diameter(graph_map) ==
    LET shortest_paths ==
            [drone_id \in nodes(graph_map) |-> dijkstra(graph_map, drone_id)]
        values ==
            UNION { { shortest_paths[drone_id][n] :
                        n \in DOMAIN shortest_paths[drone_id] } :
                    drone_id \in nodes(graph_map) } \cup {0}
    IN CHOOSE a \in values : \A b \in values : a >= b

\* mutant: the edges are followed in both directions
edges_from_undirected(graph_map, node) ==
    { e \in DOMAIN graph_map : e[1] = node }
        \cup { <<e[2], e[1]>> : e \in { f \in DOMAIN graph_map : f[2] = node } }

\* the edges astar may leave a node by
edges_from(graph_map, node) == { e \in DOMAIN graph_map : e[1] = node }

\* the weight of the edge astar follows from e[1] to e[2]
edge_distance(graph_map, e) ==
    IF e \in DOMAIN graph_map THEN graph_map[e].distance
    ELSE graph_map[<<e[2], e[1]>>].distance

\* rustworkx astar with a zero heuristic: the candidates are
\* <<node, cost, path>> triples, the cheapest one per node is kept, and the
\* search stops with the goal's cost and path, or with nothing
astar(graph_map, source, destination) ==
    LET cheapest(found) ==
            { c \in found : \A d \in found : d[1] = c[1] => c[2] <= d[2] }
        expand(found) ==
            cheapest(
                found \cup
                UNION { { <<e[2], c[2] + edge_distance(graph_map, e),
                            Append(c[3], e[2])>> :
                            e \in edges_from(graph_map, c[1]) } :
                        c \in found })
        goal(found) ==
            LET at == { c \in found : c[1] = destination }
            IN IF at = {} THEN None
               ELSE LET c == CHOOSE x \in at : TRUE IN Some(<<c[2], c[3]>>)
        Expand[k \in 0..Cardinality(DOMAIN graph_map)] ==
            IF k = 0 THEN {<<source, 0, <<source>>>>}
            ELSE expand(Expand[k - 1])
    IN goal(Expand[Cardinality(DOMAIN graph_map)])

find_shortest_path_from_to(graph_map, source, destination) ==
    LET found == astar(graph_map, source, destination)
        result_of(r) ==
            IF ~is_some(r) THEN [result |-> "NoPathFound"]
            ELSE IF Len(unwrap(r)[2]) < 2 THEN [result |-> "PathTooShort"]
            ELSE [result |-> "Ok", distance |-> unwrap(r)[1],
                  path |-> unwrap(r)[2]]
    IN result_of(found)

\* `.get_item(destination).unwrap()` panics when there is no path
unicast_delay_map_from_inside_network(graph_map, source, destination, delay_multiplier) ==
    LET distance_map == dijkstra(graph_map, source)
    IN IF destination \notin DOMAIN distance_map
       THEN [panicked |-> TRUE, delay_map |-> <<>>]
       ELSE [panicked |-> FALSE,
             delay_map |->
                 (destination :>
                     delay_to(distance_map[destination], delay_multiplier))]

broadcast_delay_map_from_inside_network(graph_map, source, delay_multiplier) ==
    LET distance_map == dijkstra(graph_map, source)
    IN [panicked |-> FALSE,
        delay_map |->
            [n \in DOMAIN distance_map |->
                delay_to(distance_map[n], delay_multiplier)]]

unicast_delay_map_from_outside_network(destination_id, source_device, device_map, delay_multiplier) ==
    IF destination_id \notin DOMAIN device_map
    THEN [panicked |-> FALSE, delay_map |-> <<>>]
    ELSE [panicked |-> FALSE,
          delay_map |->
              (destination_id :>
                  delay_to(
                      distance_between(
                          source_device.real_position_in_meters,
                          device_map[destination_id].real_position_in_meters),
                      delay_multiplier))]

\* every node is looked up under destination_id, which is BROADCAST_ID
broadcast_delay_map_from_outside_network(graph_map, destination_id, source_device, device_map, delay_multiplier) ==
    IF destination_id \notin DOMAIN device_map
    THEN [panicked |-> FALSE, delay_map |-> <<>>]
    ELSE [panicked |-> FALSE,
          delay_map |->
              [n \in nodes(graph_map) |->
                  delay_to(
                      distance_between(
                          source_device.real_position_in_meters,
                          device_map[destination_id].real_position_in_meters),
                      delay_multiplier)]]

delay_map_of(connections, source_device, destination_id, device_map, delay_multiplier) ==
    IF contains_node(connections.graph_map, source_device.id)
    THEN IF destination_id = BROADCAST_ID
         THEN broadcast_delay_map_from_inside_network(
                  connections.graph_map, source_device.id, delay_multiplier)
         ELSE unicast_delay_map_from_inside_network(
                  connections.graph_map, source_device.id, destination_id,
                  delay_multiplier)
    ELSE IF destination_id = BROADCAST_ID
         THEN broadcast_delay_map_from_outside_network(
                  connections.graph_map, destination_id, source_device,
                  device_map, delay_multiplier)
         ELSE unicast_delay_map_from_outside_network(
                  destination_id, source_device, device_map, delay_multiplier)

-----------------------------------------------------------------------------
(* Scenario (task/scenario.rs): a sequence of <<time, device id, task>> *)

\* mutant: the entries are kept in the order given
scenario_from_unsorted(scenario_entries) == scenario_entries

\* Scenario::from: sort_by_key(time), a stable sort
scenario_from(scenario_entries) ==
    LET insert(sorted, entry) ==
            LET after == {i \in 1..Len(sorted) : sorted[i][1] > entry[1]}
                k == IF after = {} THEN Len(sorted) + 1
                     ELSE CHOOSE i \in after : \A j \in after : i <= j
            IN SubSeq(sorted, 1, k - 1) \o <<entry>>
                   \o SubSeq(sorted, k, Len(sorted))
        F[i \in 0..Len(scenario_entries)] ==
            IF i = 0 THEN <<>> ELSE insert(F[i - 1], scenario_entries[i])
    IN F[Len(scenario_entries)]

get_last_task(scenario, current_time, destination_id) ==
    LET matching == { i \in DOMAIN scenario :
                        /\ scenario[i][1] <= current_time
                        /\ \/ scenario[i][2] = destination_id
                           \/ scenario[i][2] = BROADCAST_ID }
    IN IF matching = {} THEN None
       ELSE Some(scenario[CHOOSE i \in matching :
                              \A j \in matching : j <= i][3])

-----------------------------------------------------------------------------
(* Attacks (networkmodel/attack.rs) and GPS (networkmodel/gps.rs) *)

\* mutant: a malware without a spread delay is sent without delay
add_malware_signals_to_queue_always(source_device, destination_device, malware_list, queue, current_time, delay_multiplier) ==
    LET signal_level == device_tx_signal_level_at(
                            source_device,
                            destination_device.real_position_in_meters,
                            CONTROL_FREQUENCY)
        delay == delay_to(
                     distance_between(
                         source_device.real_position_in_meters,
                         destination_device.real_position_in_meters),
                     delay_multiplier)
        spread_delay(malware) ==
            IF is_some(malware.spread_delay) THEN unwrap(malware.spread_delay)
            ELSE 0
        Step[i \in 0..Len(malware_list)] ==
            IF i = 0 THEN queue
            ELSE add_entry(
                     Step[i - 1],
                     current_time + spread_delay(malware_list[i]),
                     Signal(source_device.id, destination_device.id,
                            Some([kind |-> "Malware",
                                  malware |-> malware_list[i]]),
                            CONTROL_FREQUENCY, unwrap(signal_level)),
                     (destination_device.id :> delay))
    IN IF ~is_some(signal_level) THEN queue ELSE Step[Len(malware_list)]

add_malware_signals_to_queue(source_device, destination_device, malware_list, queue, current_time, delay_multiplier) ==
    LET signal_level == device_tx_signal_level_at(
                            source_device,
                            destination_device.real_position_in_meters,
                            CONTROL_FREQUENCY)
        delay == delay_to(
                     distance_between(
                         source_device.real_position_in_meters,
                         destination_device.real_position_in_meters),
                     delay_multiplier)
        Step[i \in 0..Len(malware_list)] ==
            IF i = 0 THEN queue
            ELSE IF ~is_some(malware_list[i].spread_delay) THEN Step[i - 1]
            ELSE add_entry(
                     Step[i - 1],
                     current_time + unwrap(malware_list[i].spread_delay),
                     Signal(source_device.id, destination_device.id,
                            Some([kind |-> "Malware",
                                  malware |-> malware_list[i]]),
                            CONTROL_FREQUENCY, unwrap(signal_level)),
                     (destination_device.id :> delay))
    IN IF ~is_some(signal_level) THEN queue ELSE Step[Len(malware_list)]

AttackerDevice(device, attack_type) ==
    [device |-> device, attack_type |-> attack_type]

\* mutant: the result is that of the last frequency
execute_electronic_warfare_last_result(attacker, target_device, queue, current_time, delay_multiplier) ==
    LET frequencies == SetToSeq(DOMAIN attacker.device.trx_system.tx_module)
        delay == delay_to(
                     distance_between(
                         attacker.device.real_position_in_meters,
                         target_device.real_position_in_meters),
                     delay_multiplier)
        Step[i \in 0..Len(frequencies)] ==
            IF i = 0 THEN [queue |-> queue, result |-> "TargetOutOfRange"]
            ELSE LET jamming_signal ==
                         create_signal_for(attacker.device, target_device,
                                           None, frequencies[i])
                 IN IF ~is_some(jamming_signal)
                    THEN [queue |-> Step[i - 1].queue,
                          result |-> "TargetOutOfRange"]
                    ELSE [queue |->
                             add_entry(Step[i - 1].queue, current_time,
                                       unwrap(jamming_signal),
                                       (target_device.id :> delay)),
                          result |-> "Ok"]
    IN Step[Len(frequencies)]

execute_electronic_warfare(attacker, target_device, queue, current_time, delay_multiplier) ==
    LET frequencies == SetToSeq(DOMAIN attacker.device.trx_system.tx_module)
        delay == delay_to(
                     distance_between(
                         attacker.device.real_position_in_meters,
                         target_device.real_position_in_meters),
                     delay_multiplier)
        Step[i \in 0..Len(frequencies)] ==
            IF i = 0 THEN [queue |-> queue, result |-> "TargetOutOfRange"]
            ELSE LET jamming_signal ==
                         create_signal_for(attacker.device, target_device,
                                           None, frequencies[i])
                 IN IF ~is_some(jamming_signal) THEN Step[i - 1]
                    ELSE [queue |->
                             add_entry(Step[i - 1].queue, current_time,
                                       unwrap(jamming_signal),
                                       (target_device.id :> delay)),
                          result |-> "Ok"]
    IN Step[Len(frequencies)]

\* spoof_gps and spread_malware: one signal with the attack's payload
execute_attack_with(attacker, data, frequency, target_device, queue, current_time, delay_multiplier) ==
    LET attack_signal ==
            create_signal_for(attacker.device, target_device, Some(data),
                              frequency)
        delay == delay_to(
                     distance_between(
                         attacker.device.real_position_in_meters,
                         target_device.real_position_in_meters),
                     delay_multiplier)
    IN IF ~is_some(attack_signal)
       THEN [queue |-> queue, result |-> "TargetOutOfRange"]
       ELSE [queue |-> add_entry(queue, current_time, unwrap(attack_signal),
                                 (target_device.id :> delay)),
             result |-> "Ok"]

execute_attack(attacker, target_device, queue, current_time, delay_multiplier) ==
    CASE attacker.attack_type.kind = "ElectronicWarfare" ->
            execute_electronic_warfare(
                attacker, target_device, queue, current_time, delay_multiplier)
      [] attacker.attack_type.kind = "GPSSpoofing" ->
            execute_attack_with(
                attacker,
                [kind |-> "GPS", position |-> attacker.attack_type.position],
                GPS_L1_FREQUENCY, target_device, queue, current_time,
                delay_multiplier)
      [] attacker.attack_type.kind = "MalwareDistribution" ->
            execute_attack_with(
                attacker,
                [kind |-> "Malware", malware |-> attacker.attack_type.malware],
                CONTROL_FREQUENCY, target_device, queue, current_time,
                delay_multiplier)

\* GPS::add_gps_signals_to_queue, over the devices in iteration order
gps_add_gps_signals_to_queue(gps, queue, device_map, order, current_time, delay_multiplier) ==
    LET Step[i \in 0..Len(order)] ==
            IF i = 0 THEN queue
            ELSE LET target == device_map[order[i]]
                     gps_signal ==
                         create_signal_for(
                             gps, target,
                             Some([kind |-> "GPS",
                                   position |-> target.real_position_in_meters]),
                             GPS_L1_FREQUENCY)
                 IN IF ~is_some(gps_signal) THEN Step[i - 1]
                    ELSE add_entry(
                             Step[i - 1], current_time, unwrap(gps_signal),
                             (target.id :>
                                 delay_to(
                                     distance_between(
                                         gps.real_position_in_meters,
                                         target.real_position_in_meters),
                                     delay_multiplier)))
    IN Step[Len(order)]

-----------------------------------------------------------------------------
(* NetworkModel (networkmodel.rs).  device_map is a function from ids to   *)
(* devices; device_order is the iteration order of the underlying HashMap, *)
(* which stays the same while the map only loses entries.                  *)

\* the order restricted to the ids for which Keep holds
retain_order(order, kept_ids) ==
    LET Step[i \in 0..Len(order)] ==
            IF i = 0 THEN <<>>
            ELSE IF order[i] \in kept_ids THEN Append(Step[i - 1], order[i])
            ELSE Step[i - 1]
    IN Step[Len(order)]

update_connections_graph(model) ==
    [model EXCEPT !.connections =
        connections_update(@, model.command_device_id, model.device_map,
                           CONTROL_FREQUENCY)]

add_gps_signals_to_queue(model, queue) ==
    gps_add_gps_signals_to_queue(
        model.gps, queue, model.device_map, model.device_order,
        model.current_time, model.delay_multiplier)

add_scenario_signals_to_queue(model, queue) ==
    LET order == model.device_order
        command_device == model.device_map[model.command_device_id]
        with_delays(prev, task_signal, delays) ==
            IF delays.panicked THEN [queue |-> prev.queue, panicked |-> TRUE]
            ELSE [queue |-> add_entry(prev.queue, model.current_time,
                                      task_signal, delays.delay_map),
                  panicked |-> FALSE]
        with_signal(prev, device_id, task_signal) ==
            IF ~is_some(task_signal) THEN prev
            ELSE with_delays(
                     prev, unwrap(task_signal),
                     delay_map_of(model.connections, command_device, device_id,
                                  model.device_map, model.delay_multiplier))
        with_task(prev, device_id, last_task) ==
            IF ~is_some(last_task) THEN prev
            ELSE with_signal(
                     prev, device_id,
                     create_signal_for(
                         command_device, model.device_map[device_id],
                         Some([kind |-> "SetTask", task |-> unwrap(last_task)]),
                         CONTROL_FREQUENCY))
        step(prev, device_id) ==
            IF prev.panicked THEN prev
            ELSE IF device_id = command_device.id THEN prev
            ELSE with_task(prev, device_id,
                           get_last_task(model.scenario, model.current_time,
                                         device_id))
        Step[i \in 0..Len(order)] ==
            IF i = 0 THEN [queue |-> queue, panicked |-> FALSE]
            ELSE step(Step[i - 1], order[i])
    IN IF model.command_device_id \notin DOMAIN model.device_map
       THEN [queue |-> queue, panicked |-> FALSE]
       ELSE Step[Len(order)]

spread_malware(model, queue) ==
    LET order == model.device_order
        n == Len(order)
        \* step (i - 1) * n + j is device order[i] with neighbor order[j]
        Step[k \in 0..(n * n)] ==
            IF k = 0 THEN queue
            ELSE LET source == model.device_map[order[((k - 1) \div n) + 1]]
                     neighbor == model.device_map[order[((k - 1) % n) + 1]]
                     malware_list ==
                         SeqMap(SetToSeq(malware_infections(source)),
                                LAMBDA infection : infection[2])
                 IN IF malware_infections(source) = {} THEN Step[k - 1]
                    ELSE IF neighbor.id = source.id THEN Step[k - 1]
                    ELSE add_malware_signals_to_queue(
                             source, neighbor, malware_list, Step[k - 1],
                             model.current_time, model.delay_multiplier)
    IN Step[n * n]

update_attacker_devices(model) ==
    [model EXCEPT !.attacker_devices =
        [i \in DOMAIN model.attacker_devices |->
            AttackerDevice(
                device_update(model.attacker_devices[i].device).device,
                model.attacker_devices[i].attack_type)]]

update_gps(model) ==
    [model EXCEPT !.gps = device_update(model.gps).device]

execute_attacks(model, queue, device_id) ==
    LET attackers == model.attacker_devices
        Step[i \in 0..Len(attackers)] ==
            IF i = 0 THEN [queue |-> queue, results |-> <<>>]
            ELSE LET out == execute_attack(
                                attackers[i], model.device_map[device_id],
                                Step[i - 1].queue, model.current_time,
                                model.delay_multiplier)
                 IN [queue |-> out.queue,
                     results |-> Append(Step[i - 1].results, out.result)]
    IN Step[Len(attackers)]

\* mutant: the first failed reception ends the delivery
deliver_signals_until_error(device, signals, current_time, received) ==
    LET Step[i \in 0..Len(signals)] ==
            IF i = 0 THEN [device |-> device, offered |-> <<>>, results |-> <<>>]
            ELSE IF \E j \in 1..Len(Step[i - 1].results) :
                        Step[i - 1].results[j] # "Ok"
            THEN Step[i - 1]
            ELSE LET out == device_receive_signal(
                                Step[i - 1].device, signals[i], current_time,
                                received[i])
                 IN [device |-> out.device,
                     offered |-> Append(Step[i - 1].offered, signals[i]),
                     results |-> Append(Step[i - 1].results, out.result)]
    IN Step[Len(signals)]

\* `let _ = device.receive_signal(..)` for every signal due
deliver_signals(device, signals, current_time, received) ==
    LET offer(prev, signal, out) ==
            [device |-> out.device,
             offered |-> Append(prev.offered, signal),
             results |-> Append(prev.results, out.result)]
        step(prev, signal, is_received) ==
            offer(prev, signal,
                  device_receive_signal(prev.device, signal, current_time,
                                        is_received))
        Step[i \in 0..Len(signals)] ==
            IF i = 0 THEN [device |-> device, offered |-> <<>>, results |-> <<>>]
            ELSE step(Step[i - 1], signals[i], received[i])
    IN Step[Len(signals)]

\* mutant: the shut-down devices stay in the map
remove_shut_down_devices_kept(model) ==
    [model EXCEPT !.device_order = retain_order(@, DOMAIN model.device_map)]

remove_shut_down_devices(model) ==
    LET kept_ids == {id \in DOMAIN model.device_map :
                        ~is_shut_down(model.device_map[id])}
    IN [model EXCEPT
           !.device_map = [id \in kept_ids |-> model.device_map[id]],
           !.device_order = retain_order(@, kept_ids)]

\* NetworkModel::new up to set_initial_state
NetworkModel(command_device_id, device_map, device_order, attacker_devices, gps, scenario, topology, delay_multiplier) ==
    [current_time |-> 0,
     command_device_id |-> command_device_id,
     device_map |-> device_map,
     device_order |-> device_order,
     attacker_devices |-> attacker_devices,
     gps |-> gps,
     connections |-> ConnectionGraph(topology),
     delay_multiplier |-> delay_multiplier,
     scenario |-> scenario]

set_initial_state(model, queue) ==
    LET connected == update_connections_graph(model)
        scheduled == add_scenario_signals_to_queue(
                         connected, add_gps_signals_to_queue(connected, queue))
    IN [model |-> connected, queue |-> scheduled.queue,
        panicked |-> scheduled.panicked]

\* mutant: the queue is pruned after the time has been advanced
next_phase_prune_late(phase, more_devices) ==
    CASE phase = "spread_malware" -> "update_attacker_devices"
      [] phase = "update_attacker_devices" -> "update_gps"
      [] phase \in {"update_gps", "device_update"} ->
            IF more_devices THEN "execute_attacks"
            ELSE "remove_shut_down_devices"
      [] phase = "execute_attacks" -> "deliver_signals"
      [] phase = "deliver_signals" -> "device_update"
      [] phase = "remove_shut_down_devices" -> "update_connections_graph"
      [] phase = "update_connections_graph" -> "advance_time"
      [] phase = "advance_time" -> "remove_old_signals"
      [] phase = "remove_old_signals" -> "add_scenario_signals_to_queue"
      [] phase = "add_scenario_signals_to_queue" -> "add_gps_signals_to_queue"
      [] phase = "add_gps_signals_to_queue" -> "spread_malware"

\* the statement of NetworkModel::update / update_devices that follows
next_phase(phase, more_devices) ==
    CASE phase = "spread_malware" -> "update_attacker_devices"
      [] phase = "update_attacker_devices" -> "update_gps"
      [] phase \in {"update_gps", "device_update"} ->
            IF more_devices THEN "execute_attacks"
            ELSE "remove_shut_down_devices"
      [] phase = "execute_attacks" -> "deliver_signals"
      [] phase = "deliver_signals" -> "device_update"
      [] phase = "remove_shut_down_devices" -> "update_connections_graph"
      [] phase = "update_connections_graph" -> "remove_old_signals"
      [] phase = "remove_old_signals" -> "advance_time"
      [] phase = "advance_time" -> "add_scenario_signals_to_queue"
      [] phase = "add_scenario_signals_to_queue" -> "add_gps_signals_to_queue"
      [] phase = "add_gps_signals_to_queue" -> "spread_malware"

-----------------------------------------------------------------------------
(* SpecQueue: the SignalQueue driven by arbitrary calls of its methods *)

QueueTimes == {0, ITERATION_TIME}
QueryTimes == {0, ITERATION_TIME, 2 * ITERATION_TIME}
QueueDestinations == {BROADCAST_ID, 1, 2}

\* IdToDelayMap inputs: empty, broadcast fallback only, several devices,
\* a device entry beside the broadcast fallback
QueueDelayMaps ==
    { <<>>,
      (BROADCAST_ID :> ITERATION_TIME),
      (1 :> 0) @@ (2 :> ITERATION_TIME),
      (BROADCAST_ID :> ITERATION_TIME) @@ (2 :> 0) }

QueueSignals ==
    { Signal(1, d, None, CONTROL_FREQUENCY, RED_SIGNAL_LEVEL) :
        d \in QueueDestinations }

QueueInit ==
    /\ signal_queue = <<>>
    /\ op = [name |-> "new"]
    /\ rx_module = DefaultRXModule
    /\ drone = None
    /\ network_model = None
    /\ pc = "idle"
    /\ tick = None

QueueAddEntry ==
    /\ Len(signal_queue) < MaxQueueLen
    /\ \E time \in QueueTimes, signal \in QueueSignals,
          delay_map \in QueueDelayMaps :
            /\ signal_queue' = add_entry(signal_queue, time, signal, delay_map)
            /\ op' = [name |-> "add_entry", time |-> time, signal |-> signal,
                      delay_map |-> delay_map, before |-> signal_queue]
    /\ UNCHANGED <<rx_module, drone, net_vars>>

QueueGetCurrentSignalsFor ==
    /\ \E destination_id \in QueueDestinations, current_time \in QueryTimes :
            op' = [name |-> "get_current_signals_for",
                   destination_id |-> destination_id,
                   current_time |-> current_time,
                   result |-> get_current_signals_for(
                                  signal_queue, destination_id, current_time)]
    /\ UNCHANGED <<signal_queue, rx_module, drone, net_vars>>

QueueRemoveOldSignals ==
    /\ \E current_time \in QueryTimes :
            /\ signal_queue' = remove_old_signals(signal_queue, current_time)
            /\ op' = [name |-> "remove_old_signals",
                      current_time |-> current_time, before |-> signal_queue]
    /\ UNCHANGED <<rx_module, drone, net_vars>>

QueueNext ==
    \/ QueueAddEntry
    \/ QueueGetCurrentSignalsFor
    \/ QueueRemoveOldSignals

SpecQueue == QueueInit /\ [][QueueNext]_vars

-----------------------------------------------------------------------------
(* SpecRX: one RXModule driven by arbitrary receive_signal / clear_signals *)

RxTimes == {0, ITERATION_TIME}
RxFrequencies == {GPS_L1_FREQUENCY, CONTROL_FREQUENCY}
RxLevels ==
    {BLACK_SIGNAL_LEVEL, RED_SIGNAL_LEVEL, YELLOW_SIGNAL_LEVEL,
     GREEN_SIGNAL_LEVEL}

RxMaxLevelMaps ==
    { (GPS_L1_FREQUENCY :> GREEN_SIGNAL_LEVEL)
          @@ (CONTROL_FREQUENCY :> YELLOW_SIGNAL_LEVEL),
      (CONTROL_FREQUENCY :> RED_SIGNAL_LEVEL),
      (GPS_L1_FREQUENCY :> BLACK_SIGNAL_LEVEL)
          @@ (CONTROL_FREQUENCY :> GREEN_SIGNAL_LEVEL) }

RxData == {None, Some([kind |-> "GPS", position |-> [x |-> 0, z |-> 0]])}

RxSignals ==
    { Signal(1, 1, data, frequency, level) :
        data \in RxData, frequency \in RxFrequencies, level \in RxLevels }

RxInit ==
    /\ rx_module \in {RXModule(m) : m \in RxMaxLevelMaps}
    /\ op = [name |-> "new"]
    /\ signal_queue = <<>>
    /\ drone = None
    /\ network_model = None
    /\ pc = "idle"
    /\ tick = None

RxReceiveSignal ==
    /\ \E signal \in RxSignals, time \in RxTimes, is_received \in BOOLEAN :
          LET out == rx_receive_signal(rx_module, signal, time, is_received)
          IN /\ rx_module' = out.rx
             /\ op' = [name |-> "receive_signal", signal |-> signal,
                       time |-> time, before |-> rx_module,
                       is_received |-> is_received,
                       result |-> out.result]
    /\ UNCHANGED <<signal_queue, drone, net_vars>>

RxClearSignals ==
    /\ rx_module' = clear_signals(rx_module)
    /\ op' = [name |-> "clear_signals", before |-> rx_module]
    /\ UNCHANGED <<signal_queue, drone, net_vars>>

RxNext ==
    \/ RxReceiveSignal
    \/ RxClearSignals

SpecRX == RxInit /\ [][RxNext]_vars

-----------------------------------------------------------------------------
(* SpecDevice: one Device driven by arbitrary receive_signal / update calls *)

MaxDeviceUpdates == 3
MaxDevicePower == 30

Malware(malware_type, infection_delay, spread_delay) ==
    [malware_type |-> malware_type, infection_delay |-> infection_delay,
     spread_delay |-> spread_delay]

Indicator == Malware([kind |-> "Indicator"], 0, Some(0))
DoS == Malware([kind |-> "DoS", lost_power |-> MaxDevicePower],
               ITERATION_TIME, None)

DeviceDestination == Point3D(6, 0)

DevicePowers ==
    {MOVEMENT_POWER_CONSUMPTION + PASSIVE_POWER_CONSUMPTION, MaxDevicePower}

DeviceMovementSystems == {DefaultMovementSystem, MovementSystem(3)}

DeviceSignalLossResponses ==
    {[kind |-> "Ignore"], [kind |-> "Shutdown"], [kind |-> "Hover"],
     [kind |-> "Ascend"], [kind |-> "ReturnToHome", home_point |-> DefaultPoint]}

DeviceVulnerabilities == {{DoS}, {DoS, Indicator}}

DeviceTRXSystem ==
    TRXSystem(<<>>,
              RXModule((GPS_L1_FREQUENCY :> GREEN_SIGNAL_LEVEL)
                          @@ (CONTROL_FREQUENCY :> GREEN_SIGNAL_LEVEL)))

DeviceData ==
    {None,
     Some([kind |-> "Malware", malware |-> Indicator]),
     Some([kind |-> "Malware", malware |-> DoS]),
     Some([kind |-> "SetTask", task |-> Task("Attack", Some(DeviceDestination))]),
     Some([kind |-> "SetTask",
           task |-> Task("Reposition", Some(DeviceDestination))])}

DeviceSignals ==
    { Signal(2, 1, data, CONTROL_FREQUENCY, RED_SIGNAL_LEVEL) :
        data \in DeviceData }
    \cup
    { Signal(2, 2, Some([kind |-> "Malware", malware |-> DoS]),
             CONTROL_FREQUENCY, RED_SIGNAL_LEVEL),
      Signal(2, BROADCAST_ID,
             Some([kind |-> "GPS", position |-> DefaultPoint]),
             GPS_L1_FREQUENCY, RED_SIGNAL_LEVEL) }

DeviceInit ==
    /\ drone \in
          { Device(1, DefaultPoint, DefaultTask, PowerSystem(power, power),
                   movement_system, DeviceTRXSystem, vulnerabilities,
                   signal_loss_response) :
              power \in DevicePowers,
              movement_system \in DeviceMovementSystems,
              vulnerabilities \in DeviceVulnerabilities,
              signal_loss_response \in DeviceSignalLossResponses }
    /\ op = [name |-> "new", updates |-> 0]
    /\ signal_queue = <<>>
    /\ rx_module = DefaultRXModule
    /\ network_model = None
    /\ pc = "idle"
    /\ tick = None

DeviceReceiveSignal ==
    /\ \E signal \in DeviceSignals, is_received \in BOOLEAN :
          LET out == device_receive_signal(
                         drone, signal, drone.current_time, is_received)
          IN /\ drone' = out.device
             /\ op' = [name |-> "receive_signal", result |-> out.result,
                       updates |-> op.updates]
    /\ UNCHANGED <<signal_queue, rx_module, net_vars>>

DeviceUpdate ==
    /\ op.updates < MaxDeviceUpdates
    /\ LET out == device_update(drone)
       IN /\ drone' = out.device
          /\ op' = [name |-> "update", before |-> drone,
                    result |-> out.result, updates |-> op.updates + 1]
    /\ UNCHANGED <<signal_queue, rx_module, net_vars>>

DeviceNext ==
    \/ DeviceReceiveSignal
    \/ DeviceUpdate

SpecDevice == DeviceInit /\ [][DeviceNext]_vars

-----------------------------------------------------------------------------
(* SpecPayload: one Device vulnerable to one DoS malware, driven by        *)
(* receive_signal / update calls.  op.applied counts the updates in which  *)
(* handle_malware_infections consumed power.                               *)

\* a DoS that costs less power than the device has
PayloadDoS(infection_delay) ==
    Malware([kind |-> "DoS", lost_power |-> 2], infection_delay, None)

PayloadMalwares == {PayloadDoS(0), PayloadDoS(ITERATION_TIME)}

PayloadSignals ==
    { Signal(2, 1, data, CONTROL_FREQUENCY, RED_SIGNAL_LEVEL) :
        data \in {None} \cup
                 { Some([kind |-> "Malware", malware |-> malware]) :
                     malware \in PayloadMalwares } }

PayloadInit ==
    /\ drone \in
          { Device(1, DefaultPoint, DefaultTask,
                   PowerSystem(MaxDevicePower, MaxDevicePower),
                   movement_system, DeviceTRXSystem, {malware},
                   signal_loss_response) :
              movement_system \in DeviceMovementSystems,
              malware \in PayloadMalwares,
              signal_loss_response \in {[kind |-> "Ignore"],
                                        [kind |-> "Ascend"]} }
    /\ op = [name |-> "new", updates |-> 0, applied |-> 0]
    /\ signal_queue = <<>>
    /\ rx_module = DefaultRXModule
    /\ network_model = None
    /\ pc = "idle"
    /\ tick = None

PayloadReceiveSignal ==
    /\ \E signal \in PayloadSignals, is_received \in BOOLEAN :
          LET out == device_receive_signal(
                         drone, signal, drone.current_time, is_received)
          IN /\ drone' = out.device
             /\ op' = [op EXCEPT !.name = "receive_signal"]
    /\ UNCHANGED <<signal_queue, rx_module, net_vars>>

\* the power handle_malware_infections consumes in update()
PayloadConsumed(steps) ==
    IF steps.passive.result # "Ok" THEN 0
    ELSE steps.passive.device.power_system.power
             - steps.infected.power_system.power

PayloadUpdate ==
    /\ op.updates < MaxDeviceUpdates
    /\ LET out == device_update(drone)
       IN /\ drone' = out.device
          /\ op' = [name |-> "update", updates |-> op.updates + 1,
                    applied |->
                        IF PayloadConsumed(update_steps(drone)) > 0
                        THEN op.applied + 1 ELSE op.applied]
    /\ UNCHANGED <<signal_queue, rx_module, net_vars>>

PayloadNext ==
    \/ PayloadReceiveSignal
    \/ PayloadUpdate

SpecPayload == PayloadInit /\ [][PayloadNext]_vars

-----------------------------------------------------------------------------
(* SpecReceive: one Device, with any of the ids, driven by receive_signal  *)
(* / update calls; op keeps the call of receive_signal.                    *)

ReceiveInit ==
    /\ drone \in
          { Device(id, DefaultPoint, DefaultTask,
                   PowerSystem(MaxDevicePower, MaxDevicePower),
                   MovementSystem(3), DeviceTRXSystem, {DoS},
                   [kind |-> "Ignore"]) : id \in DeviceIds }
    /\ op = [name |-> "new", updates |-> 0]
    /\ signal_queue = <<>>
    /\ rx_module = DefaultRXModule
    /\ network_model = None
    /\ pc = "idle"
    /\ tick = None

ReceiveSignal ==
    /\ \E signal \in DeviceSignals, is_received \in BOOLEAN :
          LET out == device_receive_signal(
                         drone, signal, drone.current_time, is_received)
          IN /\ drone' = out.device
             /\ op' = [name |-> "receive_signal", before |-> drone,
                       signal |-> signal, is_received |-> is_received,
                       result |-> out.result, updates |-> op.updates]
    /\ UNCHANGED <<signal_queue, rx_module, net_vars>>

ReceiveUpdate ==
    /\ op.updates < MaxDeviceUpdates
    /\ drone' = device_update(drone).device
    /\ op' = [name |-> "update", updates |-> op.updates + 1]
    /\ UNCHANGED <<signal_queue, rx_module, net_vars>>

ReceiveNext ==
    \/ ReceiveSignal
    \/ ReceiveUpdate

SpecReceive == ReceiveInit /\ [][ReceiveNext]_vars

-----------------------------------------------------------------------------
(* SpecId: threads that build devices (DeviceBuilder::build or             *)
(* Device::default) and clone them.  A thread first takes an id from       *)
(* generate_device_id and then constructs the device; network_model holds  *)
(* the static FREE_DEVICE_ID, the ids in the order they were issued and    *)
(* the devices in the order they came to be, pc the position of each       *)
(* thread.                                                                 *)

MaxThreads == 2
MaxIssuedIds == 3      \* ids the counter issues
MaxClones == 1

Threads == 1..MaxThreads

IdConstructors == {"build", "default"}

IdInit ==
    /\ network_model = [FREE_DEVICE_ID |-> 1, issued |-> <<>>,
                        devices |-> <<>>]
    /\ pc = [thread \in Threads |-> [at |-> "idle"]]
    /\ op = [name |-> "new"]
    /\ signal_queue = <<>>
    /\ rx_module = DefaultRXModule
    /\ drone = None
    /\ tick = None

IdGenerateDeviceId ==
    /\ Len(network_model.issued) < MaxIssuedIds
    /\ \E thread \in Threads, constructor \in IdConstructors :
          /\ pc[thread].at = "idle"
          /\ LET out == generate_device_id(network_model.FREE_DEVICE_ID)
             IN /\ network_model' =
                      [network_model EXCEPT
                          !.FREE_DEVICE_ID = out.free_device_id,
                          !.issued = Append(@, out.id)]
                /\ pc' = [pc EXCEPT ![thread] =
                             [at |-> constructor, id |-> out.id]]
          /\ op' = [name |-> "generate_device_id"]
    /\ UNCHANGED <<signal_queue, rx_module, drone, tick>>

\* Device::new or the struct literal of Device::default, with the id taken
IdConstruct ==
    /\ \E thread \in Threads :
          /\ pc[thread].at \in IdConstructors
          /\ network_model' =
                [network_model EXCEPT !.devices =
                    Append(@, [id |-> pc[thread].id,
                               made_by |-> pc[thread].at, of |-> 0])]
          /\ pc' = [pc EXCEPT ![thread] = [at |-> "idle"]]
          /\ op' = [name |-> "construct"]
    /\ UNCHANGED <<signal_queue, rx_module, drone, tick>>

\* #[derive(Clone)]: every field is copied, the id too
IdClone ==
    /\ Cardinality({ i \in DOMAIN network_model.devices :
                       network_model.devices[i].made_by = "clone" })
           < MaxClones
    /\ \E i \in DOMAIN network_model.devices :
          /\ network_model' =
                [network_model EXCEPT !.devices =
                    Append(@, [id |-> network_model.devices[i].id,
                               made_by |-> "clone", of |-> i])]
          /\ op' = [name |-> "clone"]
    /\ UNCHANGED <<signal_queue, rx_module, drone, pc, tick>>

IdNext ==
    \/ IdGenerateDeviceId
    \/ IdConstruct
    \/ IdClone

SpecId == IdInit /\ [][IdNext]_vars

-----------------------------------------------------------------------------
(* SpecScenario: a Scenario built from a list of entries and queried with  *)
(* get_last_task.  The task of the i-th entry of the list has the          *)
(* destination (i, 0), which tells the entries apart.                      *)

MaxScenarioLen == 3

ScenarioTimes == {0, ITERATION_TIME, 2 * ITERATION_TIME}

ScenarioTargets == {BROADCAST_ID, 1, 2}

ScenarioTask(i) == Task("Reposition", Some(Point3D(i, 0)))

ScenarioEntries ==
    UNION { { [i \in 1..n |-> <<time[i], target[i], ScenarioTask(i)>>] :
                time \in [1..n -> ScenarioTimes],
                target \in [1..n -> ScenarioTargets] } :
            n \in 0..MaxScenarioLen }

ScenarioInit ==
    /\ \E scenario_entries \in ScenarioEntries :
          /\ network_model = [scenario |-> scenario_from(scenario_entries)]
          /\ op = [name |-> "from", scenario_entries |-> scenario_entries]
    /\ signal_queue = <<>>
    /\ rx_module = DefaultRXModule
    /\ drone = None
    /\ pc = "idle"
    /\ tick = None

ScenarioGetLastTask ==
    /\ \E current_time \in ScenarioTimes, destination_id \in {1, 2} :
          op' = [name |-> "get_last_task",
                 scenario_entries |-> op.scenario_entries,
                 current_time |-> current_time,
                 destination_id |-> destination_id,
                 result |-> get_last_task(network_model.scenario,
                                          current_time, destination_id)]
    /\ UNCHANGED <<signal_queue, rx_module, drone, net_vars>>

ScenarioNext == ScenarioGetLastTask

SpecScenario == ScenarioInit /\ [][ScenarioNext]_vars

-----------------------------------------------------------------------------
(* SpecHome: one Device with policy ReturnToHome that gets an accurate GPS *)
(* fix and then an update() in every tick and never a control signal, as   *)
(* in tests::returning_to_home_on_signal_loss.  The device starts on the   *)
(* line through its home along which it flies.  op keeps where it        *)
(* started, whether its power lasts for the way and whether it is home.  *)

MaxHomeDistance == 12  \* the device starts at most this far from the origin

HomePoints == {DefaultPoint, Point3D(4, 0)}

HomeStarts == { Point3D(x, 0) : x \in (0 - MaxHomeDistance)..MaxHomeDistance }

HomeTasks == {DefaultTask, Task("Reposition", Some(DeviceDestination))}

HomePowers == {MaxDevicePower, 2 * MaxDevicePower}

\* the GPS signal of the test: the device's real position
HomeGPSSignal(device) ==
    Signal(2, device.id,
           Some([kind |-> "GPS", position |-> device.real_position_in_meters]),
           GPS_L1_FREQUENCY, RED_SIGNAL_LEVEL)

\* the updates the power pays for in full: passive, GPS processing, movement
HomeMoves(power) ==
    (power - 1) \div (PASSIVE_POWER_CONSUMPTION
                         + PROCESSING_POWER_CONSUMPTION
                         + MOVEMENT_POWER_CONSUMPTION)

\* the power lasts until the device is within DESTINATION_RADIUS of home
HomeEnoughPower(device) ==
    saturating_sub(
        Abs(device.real_position_in_meters.x
                - device.signal_loss_response.home_point.x),
        device.movement_system.max_speed
            * HomeMoves(device.power_system.power))
        <= DESTINATION_RADIUS

HomeReached(device) ==
    at_destination(device, device.signal_loss_response.home_point)

HomeInit ==
    /\ drone \in
          { [ Device(1, start, task, PowerSystem(power, power),
                     MovementSystem(3), DeviceTRXSystem, {},
                     [kind |-> "ReturnToHome", home_point |-> home_point])
              EXCEPT !.movement_system.position = start ] :
              start \in HomeStarts, task \in HomeTasks,
              power \in HomePowers, home_point \in HomePoints }
    /\ op = [name |-> "new", start |-> drone.real_position_in_meters,
             enough_power |-> HomeEnoughPower(drone),
             at_home |-> HomeReached(drone)]
    /\ pc = "receive_signal"
    /\ signal_queue = <<>>
    /\ rx_module = DefaultRXModule
    /\ network_model = None
    /\ tick = None

HomeReceiveSignal ==
    /\ pc = "receive_signal"
    /\ drone' = device_receive_signal(
                    drone, HomeGPSSignal(drone), drone.current_time, TRUE).device
    /\ op' = [op EXCEPT !.name = "receive_signal",
                        !.at_home = HomeReached(drone')]
    /\ pc' = "update"
    /\ UNCHANGED <<signal_queue, rx_module, network_model, tick>>

HomeUpdate ==
    /\ pc = "update"
    /\ drone' = device_update(drone).device
    /\ op' = [op EXCEPT !.name = "update", !.at_home = HomeReached(drone')]
    /\ pc' = "receive_signal"
    /\ UNCHANGED <<signal_queue, rx_module, network_model, tick>>

HomeNext ==
    \/ HomeReceiveSignal
    \/ HomeUpdate

\* every step of HomeNext passes the turn on
HomeTurn == pc' = IF pc = "update" THEN "receive_signal" ELSE "update"

\* the loop of the test goes on: HomeNext is always enabled, so its weak
\* fairness is that of the turn
SpecHome == HomeInit /\ [][HomeNext]_vars /\ WF_pc(HomeTurn)

-----------------------------------------------------------------------------
(* SpecNet: a NetworkModel with a command device, drones, one attacker and *)
(* a GPS source, driven through NetworkModel::update statement by          *)
(* statement.  pc is the statement to run next.                            *)

MaxTicks == 2
MaxDrones == 2        \* the drones beside the command device

NetDeviceIds == 1..(MaxDrones + 1)

\* drone 2 is within reach of the attacker, drone 3 is not, and the drones
\* after it are out of everybody's reach
NetPosition(id) ==
    CASE id = 1 -> Point3D(0, 0)
      [] id = 2 -> Point3D(3, 0)
      [] id = 3 -> Point3D(0, 4)
      [] OTHER -> Point3D(0, 10 * id)

NetRXModule ==
    RXModule((GPS_L1_FREQUENCY :> GREEN_SIGNAL_LEVEL)
                @@ (CONTROL_FREQUENCY :> GREEN_SIGNAL_LEVEL))

NetCommandDevice ==
    Device(1, NetPosition(1), DefaultTask, PowerSystem(10, 10),
           DefaultMovementSystem,
           TRXSystem((CONTROL_FREQUENCY :> 10),
                     RXModule((CONTROL_FREQUENCY :> GREEN_SIGNAL_LEVEL))), {},
           [kind |-> "Ignore"])

NetDrone(id, power) ==
    Device(id, NetPosition(id), DefaultTask, PowerSystem(power, power),
           MovementSystem(1),
           TRXSystem((CONTROL_FREQUENCY :> 4), NetRXModule), {Indicator},
           [kind |-> "Ignore"])

NetDronePowers ==
    {MOVEMENT_POWER_CONSUMPTION + PASSIVE_POWER_CONSUMPTION, MaxDevicePower}

\* drone 2 starts with either power, the other drones with full power
NetDeviceMaps ==
    { [id \in NetDeviceIds |->
          IF id = 1 THEN NetCommandDevice
          ELSE IF id = 2 THEN NetDrone(id, power)
          ELSE NetDrone(id, MaxDevicePower)] :
        power \in NetDronePowers }

\* two of the orders a HashMap may iterate its values in
NetOrders ==
    { [i \in NetDeviceIds |-> i],
      [i \in NetDeviceIds |-> MaxDrones + 2 - i] }

NetAttackTypes ==
    {[kind |-> "ElectronicWarfare"],
     [kind |-> "GPSSpoofing", position |-> Point3D(6, 0)],
     [kind |-> "MalwareDistribution", malware |-> Indicator]}

NetAttackerTXModule(attack_type) ==
    CASE attack_type.kind = "ElectronicWarfare" ->
            (CONTROL_FREQUENCY :> 5) @@ (GPS_L1_FREQUENCY :> 5)
      [] attack_type.kind = "GPSSpoofing" -> (GPS_L1_FREQUENCY :> 5)
      [] attack_type.kind = "MalwareDistribution" -> (CONTROL_FREQUENCY :> 5)

NetAttackerDevice(attack_type) ==
    AttackerDevice(
        Device(8, Point3D(4, 0), DefaultTask, PowerSystem(10, 10),
               DefaultMovementSystem,
               TRXSystem(NetAttackerTXModule(attack_type), DefaultRXModule),
               {}, [kind |-> "Ignore"]),
        attack_type)

NetGPS ==
    Device(9, Point3D(0, 0), DefaultTask, PowerSystem(10, 10),
           DefaultMovementSystem,
           TRXSystem((GPS_L1_FREQUENCY :> 20), DefaultRXModule), {},
           [kind |-> "Ignore"])

NetScenario ==
    << <<0, BROADCAST_ID, Task("Reposition", Some(Point3D(9, 0)))>>,
       <<ITERATION_TIME, 2, Task("Attack", Some(Point3D(3, 0)))>> >>

NetTopologies == {"Star", "Mesh"}

NetDelayMultipliers == {0, 20}

NetEvent(phase, device_id, time) ==
    [phase |-> phase, device |-> device_id, time |-> time]

\* some result in the sequence is an Err
NetFailed(results) == \E i \in DOMAIN results : results[i] # "Ok"

NetInit ==
    /\ \E device_map \in NetDeviceMaps, order \in NetOrders,
          attack_type \in NetAttackTypes, topology \in NetTopologies,
          delay_multiplier \in NetDelayMultipliers :
          LET built == set_initial_state(
                           NetworkModel(1, device_map, order,
                                        <<NetAttackerDevice(attack_type)>>,
                                        NetGPS, NetScenario, topology,
                                        delay_multiplier),
                           <<>>)
          IN /\ network_model = built.model
             /\ signal_queue = built.queue
             /\ pc = IF built.panicked THEN "panicked" ELSE "spread_malware"
    /\ tick = [count |-> 0, start_time |-> 0, start_ids |-> {},
               start_map |-> <<>>, start_order |-> <<>>, index |-> 0,
               log |-> <<>>, offered |-> <<>>, update_calls |-> <<>>,
               failed |-> FALSE]
    /\ op = [name |-> "new"]
    /\ rx_module = DefaultRXModule
    /\ drone = None

NetMoreDevices(index) == index < Len(network_model.device_order)

NetLogged(event) == [tick EXCEPT !.log = Append(@, event)]

NetSpreadMalware ==
    /\ pc = "spread_malware"
    /\ tick.count < MaxTicks
    /\ signal_queue' = spread_malware(network_model, signal_queue)
    /\ tick' = [count |-> tick.count,
                start_time |-> network_model.current_time,
                start_ids |-> DOMAIN network_model.device_map,
                start_map |-> network_model.device_map,
                start_order |-> network_model.device_order,
                index |-> 0,
                log |-> <<NetEvent(pc, 0, network_model.current_time)>>,
                failed |-> FALSE,
                offered |-> [id \in DOMAIN network_model.device_map |-> <<>>],
                update_calls |-> [id \in DOMAIN network_model.device_map |-> 0]]
    /\ pc' = next_phase(pc, NetMoreDevices(0))
    /\ UNCHANGED <<network_model, op, rx_module, drone>>

NetUpdateAttackerDevices ==
    /\ pc = "update_attacker_devices"
    /\ network_model' = update_attacker_devices(network_model)
    /\ tick' = NetLogged(NetEvent(pc, 0, network_model.current_time))
    /\ pc' = next_phase(pc, NetMoreDevices(0))
    /\ UNCHANGED <<signal_queue, op, rx_module, drone>>

NetUpdateGPS ==
    /\ pc = "update_gps"
    /\ network_model' = update_gps(network_model)
    /\ tick' = NetLogged(NetEvent(pc, 0, network_model.current_time))
    /\ pc' = next_phase(pc, NetMoreDevices(0))
    /\ UNCHANGED <<signal_queue, op, rx_module, drone>>

NetExecuteAttacks ==
    /\ pc = "execute_attacks"
    /\ LET device_id == network_model.device_order[tick.index + 1]
           out == execute_attacks(network_model, signal_queue, device_id)
       IN /\ signal_queue' = out.queue
          /\ tick' = [NetLogged(NetEvent(pc, device_id,
                                         network_model.current_time))
                         EXCEPT !.failed = @ \/ NetFailed(out.results)]
    /\ pc' = next_phase(pc, TRUE)
    /\ UNCHANGED <<network_model, op, rx_module, drone>>

NetDeliverSignals ==
    /\ pc = "deliver_signals"
    /\ LET device_id == network_model.device_order[tick.index + 1]
           signals == get_current_signals_for(
                          signal_queue, device_id, network_model.current_time)
       IN \E received \in [1..Len(signals) -> BOOLEAN] :
             LET out == deliver_signals(
                            network_model.device_map[device_id], signals,
                            network_model.current_time, received)
             IN /\ network_model' =
                      [network_model EXCEPT !.device_map[device_id] = out.device]
                /\ tick' = [NetLogged(NetEvent(pc, device_id,
                                               network_model.current_time))
                               EXCEPT !.offered[device_id] = @ \o out.offered,
                                      !.failed = @ \/ NetFailed(out.results)]
    /\ pc' = next_phase(pc, TRUE)
    /\ UNCHANGED <<signal_queue, op, rx_module, drone>>

NetDeviceUpdate ==
    /\ pc = "device_update"
    /\ LET device_id == network_model.device_order[tick.index + 1]
           out == device_update(network_model.device_map[device_id])
       IN /\ network_model' =
                [network_model EXCEPT !.device_map[device_id] = out.device]
          /\ tick' = [NetLogged(NetEvent(pc, device_id,
                                         network_model.current_time))
                         EXCEPT !.update_calls[device_id] = @ + 1,
                                !.index = @ + 1,
                                !.failed = @ \/ out.result # "Ok"]
    /\ pc' = next_phase(pc, NetMoreDevices(tick.index + 1))
    /\ UNCHANGED <<signal_queue, op, rx_module, drone>>

NetRemoveShutDownDevices ==
    /\ pc = "remove_shut_down_devices"
    /\ network_model' = remove_shut_down_devices(network_model)
    /\ tick' = NetLogged(NetEvent(pc, 0, network_model.current_time))
    /\ pc' = next_phase(pc, FALSE)
    /\ UNCHANGED <<signal_queue, op, rx_module, drone>>

NetUpdateConnectionsGraph ==
    /\ pc = "update_connections_graph"
    /\ network_model' = update_connections_graph(network_model)
    /\ tick' = NetLogged(NetEvent(pc, 0, network_model.current_time))
    /\ pc' = next_phase(pc, FALSE)
    /\ UNCHANGED <<signal_queue, op, rx_module, drone>>

NetRemoveOldSignals ==
    /\ pc = "remove_old_signals"
    /\ signal_queue' =
          remove_old_signals(signal_queue, network_model.current_time)
    /\ tick' = NetLogged(NetEvent(pc, 0, network_model.current_time))
    /\ pc' = next_phase(pc, FALSE)
    /\ UNCHANGED <<network_model, op, rx_module, drone>>

NetAdvanceTime ==
    /\ pc = "advance_time"
    /\ network_model' =
          [network_model EXCEPT !.current_time = @ + ITERATION_TIME]
    /\ tick' = NetLogged(NetEvent(pc, 0, network_model.current_time))
    /\ pc' = next_phase(pc, FALSE)
    /\ UNCHANGED <<signal_queue, op, rx_module, drone>>

NetAddScenarioSignals ==
    /\ pc = "add_scenario_signals_to_queue"
    /\ LET out == add_scenario_signals_to_queue(network_model, signal_queue)
       IN /\ signal_queue' = out.queue
          /\ pc' = IF out.panicked THEN "panicked" ELSE next_phase(pc, FALSE)
    /\ tick' = NetLogged(NetEvent(pc, 0, network_model.current_time))
    /\ UNCHANGED <<network_model, op, rx_module, drone>>

NetAddGPSSignals ==
    /\ pc = "add_gps_signals_to_queue"
    /\ signal_queue' = add_gps_signals_to_queue(network_model, signal_queue)
    /\ tick' = [NetLogged(NetEvent(pc, 0, network_model.current_time))
                   EXCEPT !.count = @ + 1]
    /\ pc' = next_phase(pc, FALSE)
    /\ UNCHANGED <<network_model, op, rx_module, drone>>

NetNext ==
    \/ NetSpreadMalware
    \/ NetUpdateAttackerDevices
    \/ NetUpdateGPS
    \/ NetExecuteAttacks
    \/ NetDeliverSignals
    \/ NetDeviceUpdate
    \/ NetRemoveShutDownDevices
    \/ NetUpdateConnectionsGraph
    \/ NetRemoveOldSignals
    \/ NetAdvanceTime
    \/ NetAddScenarioSignals
    \/ NetAddGPSSignals

SpecNet == NetInit /\ [][NetNext]_vars

-----------------------------------------------------------------------------
(* SpecShutdown: the update() of SpecNet on a model whose attacker device  *)
(* and GPS source have power for one or two updates only.                  *)

ShutdownPowers == {PASSIVE_POWER_CONSUMPTION, 2 * PASSIVE_POWER_CONSUMPTION}

ShutdownInit ==
    /\ \E device_map \in NetDeviceMaps, attack_type \in NetAttackTypes,
          attacker_power \in ShutdownPowers, gps_power \in ShutdownPowers :
          LET attacker ==
                  AttackerDevice(
                      [NetAttackerDevice(attack_type).device EXCEPT
                          !.power_system =
                              PowerSystem(attacker_power, attacker_power)],
                      attack_type)
              gps == [NetGPS EXCEPT
                         !.power_system = PowerSystem(gps_power, gps_power)]
              built == set_initial_state(
                           NetworkModel(1, device_map,
                                        [i \in NetDeviceIds |-> i],
                                        <<attacker>>, gps, NetScenario,
                                        "Star", 20),
                           <<>>)
          IN /\ network_model = built.model
             /\ signal_queue = built.queue
             /\ pc = IF built.panicked THEN "panicked" ELSE "spread_malware"
    /\ tick = [count |-> 0, start_time |-> 0, start_ids |-> {},
               start_map |-> <<>>, start_order |-> <<>>, index |-> 0,
               log |-> <<>>, offered |-> <<>>, update_calls |-> <<>>,
               failed |-> FALSE]
    /\ op = [name |-> "new"]
    /\ rx_module = DefaultRXModule
    /\ drone = None

SpecShutdown == ShutdownInit /\ [][NetNext]_vars

-----------------------------------------------------------------------------
(* SpecAttack: one AttackerDevice at (4, 0) that attacks targets on the x  *)
(* axis, tick after tick.  network_model holds the fields of the model     *)
(* that execute_attack is called with.                                     *)

AttackRadii == {3, 6}

AttackTXModules ==
    UNION { [frequencies -> AttackRadii] :
              frequencies \in SUBSET {GPS_L1_FREQUENCY, CONTROL_FREQUENCY} }

AttackTargets ==
    { [ Device(id, Point3D(x, 0), DefaultTask,
               PowerSystem(MaxDevicePower, MaxDevicePower), MovementSystem(3),
               DeviceTRXSystem, {}, [kind |-> "Ignore"])
        EXCEPT !.movement_system.position = Point3D(x, 0) ] :
        id \in DeviceIds, x \in {0, 9} }

AttackInit ==
    /\ \E tx_module \in AttackTXModules, attack_type \in NetAttackTypes,
          delay_multiplier \in NetDelayMultipliers :
          network_model =
              [attacker_devices |->
                  << AttackerDevice(
                         Device(8, Point3D(4, 0), DefaultTask,
                                PowerSystem(10, 10), DefaultMovementSystem,
                                TRXSystem(tx_module, DefaultRXModule), {},
                                [kind |-> "Ignore"]),
                         attack_type) >>,
               current_time |-> 0,
               delay_multiplier |-> delay_multiplier]
    /\ signal_queue = <<>>
    /\ op = [name |-> "new"]
    /\ rx_module = DefaultRXModule
    /\ drone = None
    /\ pc = "idle"
    /\ tick = None

AttackExecute ==
    /\ Len(signal_queue) < MaxQueueLen
    /\ \E target_device \in AttackTargets :
          LET out == execute_attack(
                         network_model.attacker_devices[1], target_device,
                         signal_queue, network_model.current_time,
                         network_model.delay_multiplier)
          IN /\ signal_queue' = out.queue
             /\ op' = [name |-> "execute_attack", before |-> signal_queue,
                       target_device |-> target_device,
                       result |-> out.result]
    /\ UNCHANGED <<network_model, rx_module, drone, pc, tick>>

AttackAdvanceTime ==
    /\ network_model.current_time < MaxTicks * ITERATION_TIME
    /\ network_model' = [network_model EXCEPT
                            !.current_time = @ + ITERATION_TIME]
    /\ op' = [name |-> "advance_time"]
    /\ UNCHANGED <<signal_queue, rx_module, drone, pc, tick>>

AttackNext ==
    \/ AttackExecute
    \/ AttackAdvanceTime

SpecAttack == AttackInit /\ [][AttackNext]_vars

-----------------------------------------------------------------------------
(* SpecGraph: a ConnectionGraph updated over arbitrary device maps and     *)
(* queried for delay maps and shortest paths.  network_model holds the     *)
(* command device id, the device map and the graph.                        *)

GraphRadii == {4, 10}

GraphDevice(id, radius) ==
    Device(id, NetPosition(id), DefaultTask,
           PowerSystem(MaxDevicePower, MaxDevicePower), MovementSystem(1),
           TRXSystem((CONTROL_FREQUENCY :> radius), NetRXModule), {},
           [kind |-> "Ignore"])

\* every set of devices, the command device (id 1) among them or not
GraphDeviceMaps ==
    UNION { { [id \in ids |-> GraphDevice(id, radii[id])] :
                radii \in [ids -> GraphRadii] } :
            ids \in SUBSET NetDeviceIds }

\* a device that is in no device map, such as an attacker device
GraphOutsideDevice ==
    Device(8, Point3D(4, 0), DefaultTask, PowerSystem(10, 10),
           DefaultMovementSystem,
           TRXSystem((CONTROL_FREQUENCY :> 5), DefaultRXModule), {},
           [kind |-> "Ignore"])

GraphInit ==
    /\ \E device_map \in GraphDeviceMaps, topology \in NetTopologies :
          network_model = [command_device_id |-> 1,
                           device_map |-> device_map,
                           connections |-> ConnectionGraph(topology)]
    /\ op = [name |-> "new"]
    /\ signal_queue = <<>>
    /\ rx_module = DefaultRXModule
    /\ drone = None
    /\ pc = "idle"
    /\ tick = None

\* the device map changes (devices leave, join or change their reach) and
\* ConnectionGraph::update is called on it
GraphUpdate ==
    /\ \E device_map \in GraphDeviceMaps :
          /\ network_model' =
                update_connections_graph(
                    [network_model EXCEPT !.device_map = device_map])
          /\ op' = [name |-> "update",
                    before |-> network_model.connections.graph_map]
    /\ UNCHANGED <<signal_queue, rx_module, drone, pc, tick>>

GraphDelayMap ==
    /\ \E source_device \in
              {network_model.device_map[id] :
                  id \in DOMAIN network_model.device_map}
                  \cup {GraphOutsideDevice},
          destination_id \in {BROADCAST_ID} \cup NetDeviceIds,
          delay_multiplier \in NetDelayMultipliers :
          op' = [name |-> "delay_map", source_device |-> source_device,
                 destination_id |-> destination_id,
                 delay_multiplier |-> delay_multiplier,
                 result |-> delay_map_of(network_model.connections,
                                         source_device, destination_id,
                                         network_model.device_map,
                                         delay_multiplier)]
    /\ UNCHANGED <<network_model, signal_queue, rx_module, drone, pc, tick>>

GraphFindShortestPath ==
    /\ \E source \in NetDeviceIds, destination \in NetDeviceIds :
          op' = [name |-> "find_shortest_path_from_to", source |-> source,
                 destination |-> destination,
                 result |-> find_shortest_path_from_to(
                                network_model.connections.graph_map,
                                source, destination)]
    /\ UNCHANGED <<network_model, signal_queue, rx_module, drone, pc, tick>>

GraphNext ==
    \/ GraphUpdate
    \/ GraphDelayMap
    \/ GraphFindShortestPath

SpecGraph == GraphInit /\ [][GraphNext]_vars

-----------------------------------------------------------------------------
(* SpecDiameter: a ConnectionGraph updated once over a device map and      *)
(* asked for its diameter.  The device maps are those of SpecGraph and     *)
(* lines of devices 7 m apart.                                             *)

MaxLineDevices == 5

LineIds == 1..MaxLineDevices

\* reaches nobody, the adjacent devices only, or two devices to each side
LineRadii == {4, 8, 15}

LineDevice(id, radius) ==
    Device(id, Point3D(7 * (id - 1), 0), DefaultTask,
           PowerSystem(MaxDevicePower, MaxDevicePower), MovementSystem(1),
           TRXSystem((CONTROL_FREQUENCY :> radius), NetRXModule), {},
           [kind |-> "Ignore"])

LineDeviceMaps ==
    UNION { { [id \in ids |-> LineDevice(id, radii[id])] :
                radii \in [ids -> LineRadii] } :
            ids \in SUBSET LineIds }

DiameterInit ==
    /\ \E device_map \in LineDeviceMaps \cup GraphDeviceMaps,
          topology \in NetTopologies :
          network_model = [command_device_id |-> 1,
                           device_map |-> device_map,
                           connections |-> ConnectionGraph(topology)]
    /\ op = [name |-> "new"]
    /\ signal_queue = <<>>
    /\ rx_module = DefaultRXModule
    /\ drone = None
    /\ pc = "idle"
    /\ tick = None

DiameterUpdate ==
    /\ op.name = "new"
    /\ network_model' = update_connections_graph(network_model)
    /\ op' = [name |-> "update"]
    /\ UNCHANGED <<signal_queue, rx_module, drone, pc, tick>>

DiameterQuery ==
    /\ op' = [name |-> "diameter",
              result |-> diameter(network_model.connections.graph_map)]
    /\ UNCHANGED <<network_model, signal_queue, rx_module, drone, pc, tick>>

DiameterNext ==
    \/ DiameterUpdate
    \/ DiameterQuery

SpecDiameter == DiameterInit /\ [][DiameterNext]_vars

-----------------------------------------------------------------------------
(* SpecSchedule: the scheduling of task signals.  A NetworkModel without   *)
(* attackers is built and then updated; the part of update() that runs the *)
(* devices is reduced to its effect on the device map (a device is removed *)
(* or a drone has moved), the rest runs statement by statement.            *)

MaxScheduleTicks == 1

\* where a device may be: drones 2 and 3 have a second place farther out
SchedulePositions(id) ==
    CASE id = 2 -> {NetPosition(2), Point3D(6, 0)}
      [] id = 3 -> {NetPosition(3), Point3D(0, 8)}
      [] OTHER -> {NetPosition(id)}

ScheduleScenarios ==
    { << <<0, BROADCAST_ID, Task("Reposition", Some(Point3D(9, 0)))>> >>,
      << <<0, 2, Task("Reposition", Some(Point3D(9, 0)))>>,
         <<ITERATION_TIME, 3, Task("Attack", Some(Point3D(3, 0)))>> >> }

\* the device maps update_devices and remove_shut_down_devices may leave:
\* the same map, the map without one device, or one drone at another place
ScheduleNextDeviceMaps(device_map) ==
    {device_map}
        \cup { [id \in DOMAIN device_map \ {gone} |-> device_map[id]] :
                 gone \in DOMAIN device_map }
        \cup UNION { { [device_map EXCEPT
                          ![id].real_position_in_meters = position] :
                        position \in SchedulePositions(id) } :
                     id \in DOMAIN device_map }

ScheduleInit ==
    /\ \E device_map \in GraphDeviceMaps, topology \in NetTopologies,
          scenario \in ScheduleScenarios :
          LET built == set_initial_state(
                           NetworkModel(1, device_map,
                                        SetToSeq(DOMAIN device_map), <<>>,
                                        NetGPS, scenario, topology, 20),
                           <<>>)
          IN /\ network_model = built.model
             /\ signal_queue = built.queue
             /\ pc = IF built.panicked THEN "panicked" ELSE "update_devices"
    /\ op = [name |-> "set_initial_state"]
    /\ rx_module = DefaultRXModule
    /\ drone = None
    /\ tick = None

ScheduleUpdateDevices ==
    /\ pc = "update_devices"
    /\ network_model.current_time < MaxScheduleTicks * ITERATION_TIME
    /\ \E device_map \in ScheduleNextDeviceMaps(network_model.device_map) :
          network_model' =
              [network_model EXCEPT
                  !.device_map = device_map,
                  !.device_order = retain_order(@, DOMAIN device_map)]
    /\ pc' = "update_connections_graph"
    /\ op' = [name |-> "update_devices"]
    /\ UNCHANGED <<signal_queue, rx_module, drone, tick>>

ScheduleUpdateConnectionsGraph ==
    /\ pc = "update_connections_graph"
    /\ network_model' = update_connections_graph(network_model)
    /\ pc' = "remove_old_signals"
    /\ op' = [name |-> "update_connections_graph"]
    /\ UNCHANGED <<signal_queue, rx_module, drone, tick>>

ScheduleAdvanceTime ==
    /\ pc = "remove_old_signals"
    /\ signal_queue' =
          remove_old_signals(signal_queue, network_model.current_time)
    /\ network_model' =
          [network_model EXCEPT !.current_time = @ + ITERATION_TIME]
    /\ pc' = "add_scenario_signals_to_queue"
    /\ op' = [name |-> "advance_time"]
    /\ UNCHANGED <<rx_module, drone, tick>>

ScheduleAddScenarioSignals ==
    /\ pc = "add_scenario_signals_to_queue"
    /\ LET out == add_scenario_signals_to_queue(network_model, signal_queue)
       IN /\ signal_queue' = out.queue
          /\ pc' = IF out.panicked THEN "panicked"
                   ELSE "add_gps_signals_to_queue"
    /\ op' = [name |-> "add_scenario_signals_to_queue"]
    /\ UNCHANGED <<network_model, rx_module, drone, tick>>

ScheduleAddGPSSignals ==
    /\ pc = "add_gps_signals_to_queue"
    /\ signal_queue' = add_gps_signals_to_queue(network_model, signal_queue)
    /\ pc' = "update_devices"
    /\ op' = [name |-> "add_gps_signals_to_queue"]
    /\ UNCHANGED <<network_model, rx_module, drone, tick>>

ScheduleNext ==
    \/ ScheduleUpdateDevices
    \/ ScheduleUpdateConnectionsGraph
    \/ ScheduleAdvanceTime
    \/ ScheduleAddScenarioSignals
    \/ ScheduleAddGPSSignals

SpecSchedule == ScheduleInit /\ [][ScheduleNext]_vars

-----------------------------------------------------------------------------
(* SpecSpread: the spread phase of NetworkModel::update over device maps   *)
(* with arbitrary infections.  network_model is the NetworkModel and       *)
(* signal_queue its queue.                                                 *)

MaxInfections == 2    \* infections the devices of SpecSpread catch

\* a malware that spreads one tick after the spread phase
Worm == Malware([kind |-> "Indicator"], 0, Some(ITERATION_TIME))

\* DoS has no spread delay
SpreadMalwares == {Indicator, Worm, DoS}

\* the command device reaches every drone, drone 2 reaches the command
\* device and the other drones reach nobody
SpreadDevice(id) ==
    Device(id, NetPosition(id), DefaultTask,
           PowerSystem(MaxDevicePower, MaxDevicePower), MovementSystem(1),
           TRXSystem((CONTROL_FREQUENCY :> IF id = 1 THEN 10 ELSE 4),
                     NetRXModule),
           SpreadMalwares, [kind |-> "Ignore"])

SpreadInfections ==
    { <<id, malware>> \in (DOMAIN network_model.device_map) \X SpreadMalwares :
        is_infected_with(network_model.device_map[id], malware) }

SpreadInit ==
    /\ \E order \in NetOrders, delay_multiplier \in NetDelayMultipliers,
          current_time \in {0, ITERATION_TIME} :
          network_model =
              [NetworkModel(1, [id \in NetDeviceIds |-> SpreadDevice(id)],
                            order, <<>>, NetGPS, <<>>, "Mesh",
                            delay_multiplier)
                  EXCEPT !.current_time = current_time]
    /\ signal_queue = <<>>
    /\ op = [name |-> "new"]
    /\ rx_module = DefaultRXModule
    /\ drone = None
    /\ pc = "idle"
    /\ tick = None

\* a device processes a malware it has received
SpreadProcessMalware ==
    /\ Cardinality(SpreadInfections) < MaxInfections
    /\ \E id \in DOMAIN network_model.device_map, malware \in SpreadMalwares :
          /\ ~is_infected_with(network_model.device_map[id], malware)
          /\ network_model' =
                [network_model EXCEPT !.device_map[id] =
                    process_malware(@, malware)]
          /\ op' = [name |-> "process_malware", device_id |-> id,
                    malware |-> malware]
    /\ UNCHANGED <<signal_queue, rx_module, drone, pc, tick>>

SpreadMalware ==
    /\ Len(signal_queue) <= MaxQueueLen
    /\ signal_queue' = spread_malware(network_model, signal_queue)
    /\ op' = [name |-> "spread_malware", before |-> signal_queue]
    /\ UNCHANGED <<network_model, rx_module, drone, pc, tick>>

SpreadNext ==
    \/ SpreadProcessMalware
    \/ SpreadMalware

SpecSpread == SpreadInit /\ [][SpreadNext]_vars

-----------------------------------------------------------------------------
(* Claims about the SignalQueue, under SpecQueue *)

\* the delay of an entry for a destination, as the specification words it
DelayFor(entry, d) ==
    IF d \in DOMAIN entry.delay_map THEN entry.delay_map[d]
    ELSE IF BROADCAST_ID \in DOMAIN entry.delay_map
         THEN entry.delay_map[BROADCAST_ID]
    ELSE 0

SignalsOfEntries(queue, Sel(_)) ==
    LET idx == {i \in DOMAIN queue : Sel(queue[i])}
        Nth[n \in 0..Len(queue)] ==
            IF n = 0 THEN <<>>
            ELSE IF n \in idx THEN Append(Nth[n - 1], queue[n].signal)
            ELSE Nth[n - 1]
    IN Nth[Len(queue)]

MaxDelayOrZero(entry) ==
    LET values == {entry.delay_map[k] : k \in DOMAIN entry.delay_map}
    IN IF values = {} THEN 0
       ELSE CHOOSE m \in values : \A v \in values : m >= v

\* C2: remove_old_signals(t) removes a queue entry if and only if
\* t >= creation_time + max(delay-map values) (0 for an empty delay map), and
\* keeps every other entry, in the same relative order.
C2_RemovedIffExpired ==
    op.name = "remove_old_signals" =>
        LET Expired(entry) ==
                op.current_time >= entry.time + MaxDelayOrZero(entry)
            idx == {i \in DOMAIN op.before : ~Expired(op.before[i])}
            Kept[n \in 0..Len(op.before)] ==
                IF n = 0 THEN <<>>
                ELSE IF n \in idx THEN Append(Kept[n - 1], op.before[n])
                ELSE Kept[n - 1]
        IN signal_queue = Kept[Len(op.before)]

\* a pruning that removed an entry exactly at its expiry time and kept another
C2_Witness ==
    /\ op.name = "remove_old_signals"
    /\ Len(signal_queue) = 1
    /\ \E i \in DOMAIN op.before :
          /\ op.current_time = op.before[i].time + MaxDelayOrZero(op.before[i])
          /\ MaxDelayOrZero(op.before[i]) > 0

\* C3: a queue entry whose signal is addressed to the broadcast id and whose
\* delay map lists several devices is delivered to each of them: for every
\* listed device d, get_current_signals_for(d, creation_time + delay(d))
\* contains that signal.
C3_BroadcastDeliveredToEachListed ==
    op.name = "get_current_signals_for" =>
        \A i \in DOMAIN signal_queue :
            LET entry == signal_queue[i]
                listed == DOMAIN entry.delay_map \ {BROADCAST_ID}
            IN ( /\ entry.signal.destination_id = BROADCAST_ID
                 /\ Cardinality(listed) >= 2
                 /\ op.destination_id \in listed
                 /\ op.current_time
                      = entry.time + entry.delay_map[op.destination_id] )
               => \E j \in DOMAIN op.result : op.result[j] = entry.signal

-----------------------------------------------------------------------------
(* Claims about the RXModule, under SpecRX *)

BufferedOn(rx, frequency) ==
    {i \in DOMAIN rx.received_signals :
        rx.received_signals[i][2].frequency = frequency}

\* C9: in every reachable state the receive buffer of an RX module holds at
\* most one signal per frequency.
C9_OneSignalPerFrequency ==
    \A frequency \in RxFrequencies :
        Cardinality(BufferedOn(rx_module, frequency)) <= 1

\* a signal accepted on a frequency that already held one, with both
\* frequencies buffered
C9_Witness ==
    /\ op.name = "receive_signal"
    /\ op.result \in {"Ok", "NoiseReceived"}
    /\ BufferedOn(op.before, op.signal.frequency) # {}
    /\ Len(rx_module.received_signals) = 2

\* C10 as stated: if a signal is already buffered on the incoming signal's
\* frequency with quality greater than or equal to the incoming signal's,
\* receive_signal fails with SignalTooWeak and the buffer is unchanged.
C10_NotWeakerBufferedRejects ==
    op.name = "receive_signal" =>
        \A i \in BufferedOn(op.before, op.signal.frequency) :
            op.before.received_signals[i][2].level >= op.signal.level
                => /\ op.result = "SignalTooWeak"
                   /\ rx_module = op.before

\* C10 amended: if a signal is already buffered on the incoming signal's
\* frequency with quality strictly greater than the incoming signal's,
\* receive_signal fails with SignalTooWeak and the buffer is unchanged.
C10_StrongerBufferedRejects ==
    op.name = "receive_signal" =>
        \A i \in BufferedOn(op.before, op.signal.frequency) :
            op.before.received_signals[i][2].level > op.signal.level
                => /\ op.result = "SignalTooWeak"
                   /\ rx_module = op.before

\* a weaker signal rejected while a stronger one is buffered
C10_Witness ==
    /\ op.name = "receive_signal"
    /\ op.result = "SignalTooWeak"
    /\ \E i \in BufferedOn(op.before, op.signal.frequency) :
          op.before.received_signals[i][2].level > op.signal.level
    /\ rx_module = op.before

\* the incoming signal of the last receive_signal is not rejected by the
\* capture check: the module listens on its frequency, no stronger signal is
\* buffered there and signal_is_received drew true
PassesCapture ==
    /\ op.signal.frequency \in DOMAIN op.before.max_signal_levels
    /\ ~is_black(op.before.max_signal_levels[op.signal.frequency])
    /\ \A i \in BufferedOn(op.before, op.signal.frequency) :
          ~(op.before.received_signals[i][2].level > op.signal.level)
    /\ op.is_received

\* C11: when an incoming signal passes the capture check and its level
\* exceeds the receiver's maximum for its frequency, receive_signal returns
\* NoiseReceived, the only buffer entry of that frequency is the signal with
\* its payload removed (whatever was buffered there before is gone, the other
\* frequencies keep their entries) and receives_signal_on(frequency) is false.
C11_TooStrongBecomesNoise ==
    (/\ op.name = "receive_signal"
     /\ PassesCapture
     /\ op.signal.level > op.before.max_signal_levels[op.signal.frequency])
        => /\ op.result = "NoiseReceived"
           /\ \A i \in BufferedOn(rx_module, op.signal.frequency) :
                 rx_module.received_signals[i]
                     = <<op.time, [op.signal EXCEPT !.data = None]>>
           /\ Cardinality(BufferedOn(rx_module, op.signal.frequency)) = 1
           /\ \A frequency \in RxFrequencies \ {op.signal.frequency} :
                 received_signal_on(rx_module, frequency)
                     = received_signal_on(op.before, frequency)
           /\ ~receives_signal_on(rx_module, op.signal.frequency)

\* a too strong signal with a payload replaces a decodable signal buffered on
\* the same frequency
C11_Witness ==
    /\ op.name = "receive_signal"
    /\ PassesCapture
    /\ op.signal.level > op.before.max_signal_levels[op.signal.frequency]
    /\ is_some(op.signal.data)
    /\ receives_signal_on(op.before, op.signal.frequency)
    /\ op.result = "NoiseReceived"
    /\ ~receives_signal_on(rx_module, op.signal.frequency)

\* C12: receive_signal leaves the receive buffer unchanged whenever it fails
\* with NotListeningOnFrequency, SignalTooWeak or SignalNotReceived, and it
\* fails with NotListeningOnFrequency exactly when no maximum, or a Black
\* maximum, is configured for the signal's frequency.
C12_RejectionKeepsBuffer ==
    op.name = "receive_signal" =>
        /\ op.result \in {"NotListeningOnFrequency", "SignalTooWeak",
                          "SignalNotReceived"}
              => rx_module = op.before
        /\ op.result = "NotListeningOnFrequency"
              <=> \/ op.signal.frequency
                        \notin DOMAIN op.before.max_signal_levels
                  \/ is_black(
                        op.before.max_signal_levels[op.signal.frequency])

\* a signal that is not received while another one is buffered on its
\* frequency, and a signal refused on a frequency configured Black
C12_Witness ==
    /\ op.name = "receive_signal"
    /\ \/ /\ op.result = "SignalNotReceived"
          /\ BufferedOn(op.before, op.signal.frequency) # {}
       \/ /\ op.result = "NotListeningOnFrequency"
          /\ op.signal.frequency \in DOMAIN op.before.max_signal_levels
          /\ op.before.received_signals # <<>>
    /\ rx_module = op.before

-----------------------------------------------------------------------------
(* Claims about the Device, under SpecDevice *)

AllMalware == {DoS, Indicator}

\* the (time, state) pair the device holds for a malware; a malware the
\* device has no entry for is Patched
InfectionOf(d, malware) ==
    IF malware \in DOMAIN d.infection_states
    THEN d.infection_states[malware]
    ELSE <<0, "Patched">>

\* C7: for every device and every malware, over any sequence of
\* receive_signal and update calls, the infection state changes only from
\* Vulnerable to Infected: an Infected state never reverts and its recorded
\* infection time never changes, and a device that is not vulnerable to the
\* malware (Patched) never becomes Infected with it.
C7_InfectionMonotonic ==
    [][\A malware \in AllMalware :
          LET old == InfectionOf(drone, malware)
              new == InfectionOf(drone', malware)
          IN /\ old[2] = "Infected" => new = old
             /\ old[2] = "Patched" => new[2] = "Patched"
             /\ old[2] = "Vulnerable" => new[2] \in {"Vulnerable", "Infected"}
             /\ new # old => old[2] = "Vulnerable" /\ new[2] = "Infected"]_vars

\* an update that processed a malware signal although the device had been
\* infected with that malware at an earlier time
C7_Witness ==
    /\ op.name = "update"
    /\ op.result = "Ok"
    /\ \E malware \in AllMalware :
          /\ InfectionOf(op.before, malware)[2] = "Infected"
          /\ InfectionOf(op.before, malware)[1] < op.before.current_time
          /\ InfectionOf(drone, malware) = InfectionOf(op.before, malware)
          /\ \E i \in DOMAIN op.before.trx_system.rx_module.received_signals :
                op.before.trx_system.rx_module.received_signals[i][2].data
                    = Some([kind |-> "Malware", malware |-> malware])

\* some power consumption of update() on this device leaves it without power
PowerConsumedToZero(before) ==
    LET steps == update_steps(before)
    IN \/ steps.passive.result = "NoPowerLeft"
       \/ /\ steps.passive.result = "Ok"
          /\ steps.infected.power_system.power = 0
       \/ /\ steps.passive.result = "Ok"
          /\ steps.infected.power_system.power > 0
          /\ steps.processed.result = "NoPowerLeft"
       \/ /\ steps.passive.result = "Ok"
          /\ steps.processed.result = "Ok"
          /\ steps.cleared.power_system.power > 0
          /\ steps.moved.result = "NoPowerLeft"

\* C8: whenever a power consumption inside Device::update() leaves the
\* device with zero power (also when the amount consumed equals exactly the
\* remaining power), update() returns NoPowerLeft, the power, movement and
\* TRX systems are reset to their defaults, and is_shut_down() is true after
\* that call.
C8_ExhaustionReturnsNoPowerLeft ==
    (op.name = "update" /\ PowerConsumedToZero(op.before)) =>
        /\ op.result = "NoPowerLeft"
        /\ drone.power_system = DefaultPowerSystem
        /\ drone.movement_system = DefaultMovementSystem
        /\ drone.trx_system = DefaultTRXSystem
        /\ drone.power_system.power = 0


-----------------------------------------------------------------------------
(* Claims about NetworkModel::update (SpecNet) *)

NetTickStarted == tick.log # <<>>
NetTickDone == pc = "spread_malware" /\ tick.count > 0

\* the statements of one update() over the devices in start_order, each
\* with the global time it runs at
NetExpectedLog ==
    LET old_time == tick.start_time
        new_time == tick.start_time + ITERATION_TIME
        order == tick.start_order
        device_phase(k) ==
            CASE k % 3 = 1 -> "execute_attacks"
              [] k % 3 = 2 -> "deliver_signals"
              [] k % 3 = 0 -> "device_update"
    IN << NetEvent("spread_malware", 0, old_time),
          NetEvent("update_attacker_devices", 0, old_time),
          NetEvent("update_gps", 0, old_time) >>
       \o [k \in 1..(3 * Len(order)) |->
              NetEvent(device_phase(k), order[((k - 1) \div 3) + 1], old_time)]
       \o << NetEvent("remove_shut_down_devices", 0, old_time),
             NetEvent("update_connections_graph", 0, old_time),
             NetEvent("remove_old_signals", 0, old_time),
             NetEvent("advance_time", 0, old_time),
             NetEvent("add_scenario_signals_to_queue", 0, new_time),
             NetEvent("add_gps_signals_to_queue", 0, new_time) >>

\* C4: within one update() the statements run in the order malware
\* spread, attacker devices, GPS source, then per device attacks, delivery
\* and update(), then removal of shut-down devices, graph rebuild, pruning
\* of the queue at the old time, time += ITERATION_TIME, and the scheduling
\* of task and GPS signals at the new time; right after the pruning no
\* entry that expired by the old time is left.
C4_PhasesInOrder ==
    NetTickStarted =>
        /\ Len(tick.log) <= Len(NetExpectedLog)
        /\ \A i \in DOMAIN tick.log : tick.log[i] = NetExpectedLog[i]
        /\ NetTickDone => tick.log = NetExpectedLog
        /\ pc = "advance_time" =>
              /\ network_model.current_time = tick.start_time
              /\ \A i \in DOMAIN signal_queue :
                    tick.start_time
                      < signal_queue[i].time + MaxDelayOrZero(signal_queue[i])

\* a whole tick over every device has run and left signals stamped with
\* the new time in the queue
C4_Witness ==
    /\ NetTickDone
    /\ Len(tick.log) = 3 * (MaxDrones + 1) + 9
    /\ \E i \in DOMAIN signal_queue :
          signal_queue[i].time = network_model.current_time

NetDevicesDone ==
    /\ NetTickStarted
    /\ \/ pc \in {"remove_shut_down_devices", "update_connections_graph",
                   "remove_old_signals", "advance_time",
                   "add_scenario_signals_to_queue", "add_gps_signals_to_queue"}
       \/ NetTickDone

\* the signals in the queue that are due for device d at the time the tick
\* started
NetDueSignals(d) ==
    LET Due(entry) ==
            /\ entry.signal.destination_id \in {d, BROADCAST_ID}
            /\ tick.start_time = entry.time + DelayFor(entry, d)
    IN SignalsOfEntries(signal_queue, Due)

\* C5: in every tick every device that was in the map at the start of the
\* tick has update() called exactly once and is offered each of its due
\* signals, whatever the attacks, receptions and updates return; the tick
\* never aborts and the global time advances by exactly ITERATION_TIME.
C5_EveryDeviceUpdatedOnce ==
    /\ pc # "panicked"
    /\ NetTickStarted =>
          \A d \in tick.start_ids : tick.update_calls[d] <= 1
    /\ NetDevicesDone =>
          \A d \in tick.start_ids : tick.update_calls[d] = 1
    /\ (NetTickStarted /\ pc = "remove_shut_down_devices") =>
          \A d \in tick.start_ids : tick.offered[d] = NetDueSignals(d)
    /\ NetTickDone =>
          network_model.current_time = tick.start_time + ITERATION_TIME

\* the devices have been processed in a tick in which some attack,
\* reception or update failed and a device lost all its power, while a
\* device was offered several signals
C5_Witness ==
    /\ NetTickStarted
    /\ pc = "remove_shut_down_devices"
    /\ tick.failed
    /\ \E d \in DOMAIN network_model.device_map :
          is_shut_down(network_model.device_map[d])
    /\ \E d \in tick.start_ids : Len(tick.offered[d]) >= 2

NetGraphRebuilt ==
    /\ NetTickStarted
    /\ \/ pc \in {"remove_old_signals", "advance_time",
                   "add_scenario_signals_to_queue", "add_gps_signals_to_queue"}
       \/ NetTickDone

\* C6: after update() no device in the device map is shut down, and the
\* connection graph rebuilt in the tick has no node outside the device map.
C6_NoShutDownDeviceLeft ==
    NetGraphRebuilt =>
        /\ \A d \in DOMAIN network_model.device_map :
              ~is_shut_down(network_model.device_map[d])
        /\ nodes(network_model.connections.graph_map)
              \subseteq DOMAIN network_model.device_map

\* a tick has ended in which a device was removed while the remaining
\* devices are still connected
C6_Witness ==
    /\ NetTickDone
    /\ tick.start_ids # DOMAIN network_model.device_map
    /\ nodes(network_model.connections.graph_map) # {}

-----------------------------------------------------------------------------
(* Claims about the ConnectionGraph, under SpecGraph *)

GraphEdges == DOMAIN network_model.connections.graph_map

GraphUpdated(topology) ==
    /\ op.name = "update"
    /\ network_model.connections.topology = topology

\* device a of the device map transmits to device b's position on the
\* control frequency
GraphReaches(a, b) ==
    transmits_at_position(
        network_model.device_map[a],
        network_model.device_map[b].real_position_in_meters,
        CONTROL_FREQUENCY)

\* C13 as stated: after ConnectionGraph::update in Star topology over a
\* device map of N devices the graph has exactly N - 1 edges and every edge
\* is incident to the command device.
C13_StarHasNMinusOneEdges ==
    GraphUpdated("Star") =>
        /\ Cardinality(GraphEdges)
              = Cardinality(DOMAIN network_model.device_map) - 1
        /\ \A e \in GraphEdges :
              \/ e[1] = network_model.command_device_id
              \/ e[2] = network_model.command_device_id

\* C13 amended: after ConnectionGraph::update in Star topology over a device
\* map of N devices that holds the command device, the edges are exactly
\* command -> d for the other devices d the command device transmits to and
\* d -> command for the devices d that transmit to the command device: every
\* edge is incident to the command device, there are at most 2 (N - 1) edges,
\* and exactly N - 1 when the command device reaches every device and none
\* reaches it.  Without the command device the graph is empty.
C13_StarEdgesFollowReach ==
    GraphUpdated("Star") =>
        LET command == network_model.command_device_id
            others == DOMAIN network_model.device_map \ {command}
            out == { d \in others : GraphReaches(command, d) }
            back == { d \in others : GraphReaches(d, command) }
        IN IF command \notin DOMAIN network_model.device_map
           THEN GraphEdges = {}
           ELSE /\ GraphEdges = { <<command, d>> : d \in out }
                                    \cup { <<d, command>> : d \in back }
                /\ \A e \in GraphEdges : e[1] = command \/ e[2] = command
                /\ Cardinality(GraphEdges) <= 2 * Cardinality(others)
                /\ (out = others /\ back = {})
                      => Cardinality(GraphEdges) = Cardinality(others)

\* a star over three devices where one drone transmits back to the command
\* device and the other does not
C13_Witness ==
    /\ GraphUpdated("Star")
    /\ DOMAIN network_model.device_map = 1..3
    /\ <<2, 1>> \in GraphEdges
    /\ <<3, 1>> \notin GraphEdges
    /\ {<<1, 2>>, <<1, 3>>} \subseteq GraphEdges

\* C14: after ConnectionGraph::update in Mesh topology, for every device map
\* (with or without the command device) and every ordered pair of distinct
\* devices (a, b) of it, the edge a -> b exists if and only if a transmits to
\* b's position on the control frequency; there is no self-loop and no edge
\* that does not join two devices of the current map.
C14_MeshEdgesFollowReach ==
    GraphUpdated("Mesh") =>
        /\ \A a \in DOMAIN network_model.device_map :
              \A b \in DOMAIN network_model.device_map \ {a} :
                  <<a, b>> \in GraphEdges <=> GraphReaches(a, b)
        /\ \A e \in GraphEdges :
              /\ e[1] # e[2]
              /\ e[1] \in DOMAIN network_model.device_map
              /\ e[2] \in DOMAIN network_model.device_map

\* the delay over the direct distance from the source device of the last
\* delay_map call to device n of the device map
GraphDirectDelay(n) ==
    delay_to(
        distance_between(op.source_device.real_position_in_meters,
                         network_model.device_map[n].real_position_in_meters),
        op.delay_multiplier)

\* C15: delay_map for a source device that is not a node of the graph
\* returns, for a broadcast destination, one entry for every device of the
\* network (every device of the map that is a node of the graph), whose
\* delay is computed from the direct distance between the source and that
\* device; for a unicast destination of the device map it returns the
\* single entry of that destination, computed from the direct distance.
C15_OutsideDelaysFromDirectDistance ==
    (/\ op.name = "delay_map"
     /\ ~contains_node(network_model.connections.graph_map,
                       op.source_device.id))
        => IF op.destination_id = BROADCAST_ID
           THEN LET network == nodes(network_model.connections.graph_map)
                                  \cap DOMAIN network_model.device_map
                IN /\ DOMAIN op.result.delay_map = network
                   /\ \A n \in network :
                         op.result.delay_map[n] = GraphDirectDelay(n)
           ELSE op.destination_id \in DOMAIN network_model.device_map
                    => op.result.delay_map
                           = (op.destination_id
                                 :> GraphDirectDelay(op.destination_id))

\* the walks of at most one visit per device from s to d along the directed
\* edges of the graph
GraphPaths(s, d) ==
    { path \in UNION { [1..n -> NetDeviceIds] :
                          n \in 1..Cardinality(NetDeviceIds) } :
        /\ path[1] = s
        /\ path[Len(path)] = d
        /\ \A i \in 1..(Len(path) - 1) : <<path[i], path[i + 1]>> \in GraphEdges
        /\ \A i \in DOMAIN path : \A j \in DOMAIN path :
              i # j => path[i] # path[j] }

RECURSIVE GraphPathDistance(_)
GraphPathDistance(path) ==
    IF Len(path) < 2 THEN 0
    ELSE network_model.connections.graph_map[<<path[1], path[2]>>].distance
             + GraphPathDistance(Tail(path))

\* C16: find_shortest_path_from_to(s, d) returns PathTooShort when s = d,
\* NoPathFound when d is not reachable from s along directed edges, and
\* otherwise a path that starts at s, ends at d and follows existing
\* directed edges, with a returned distance that is the path's total edge
\* distance and the minimum over all directed paths from s to d.
C16_ShortestDirectedPath ==
    op.name = "find_shortest_path_from_to" =>
        LET paths == GraphPaths(op.source, op.destination)
        IN IF op.source = op.destination
           THEN op.result.result = "PathTooShort"
           ELSE IF paths = {}
           THEN op.result.result = "NoPathFound"
           ELSE /\ op.result.result = "Ok"
                /\ op.result.path \in paths
                /\ op.result.distance = GraphPathDistance(op.result.path)
                /\ \A path \in paths :
                      op.result.distance <= GraphPathDistance(path)

\* a shortest path of two hops found where a direct edge is missing, in a
\* graph that has no edge back from the destination
C16_Witness ==
    /\ op.name = "find_shortest_path_from_to"
    /\ op.result.result = "Ok"
    /\ Len(op.result.path) = 3
    /\ GraphPaths(op.destination, op.source) = {}

-----------------------------------------------------------------------------
(* Claims about the spread of malware *)

\* at the start of the tick device d is within control-frequency transmit
\* range of a malware distributor or of a device infected with the malware
NetInRangeOfInfection(d, malware) ==
    LET position == tick.start_map[d].real_position_in_meters
    IN \/ \E i \in DOMAIN network_model.attacker_devices :
             LET attacker == network_model.attacker_devices[i]
             IN /\ attacker.attack_type.kind = "MalwareDistribution"
                /\ attacker.attack_type.malware = malware
                /\ transmits_at_position(attacker.device, position,
                                         CONTROL_FREQUENCY)
       \/ \E s \in tick.start_ids \ {d} :
             /\ is_infected_with(tick.start_map[s], malware)
             /\ transmits_at_position(tick.start_map[s], position,
                                      CONTROL_FREQUENCY)

\* C17: with a malware of zero spread delay and zero infection delay and
\* delay multiplier 0, a device that is vulnerable at the start of a tick is
\* infected at the end of the tick if it is within control-frequency
\* transmit range of the malware distributor or of a device already infected
\* at the start of the tick, and is not infected if it is within range of
\* neither.
C17_OneHopPerTick ==
    (NetTickDone /\ network_model.delay_multiplier = 0) =>
        \A d \in tick.start_ids \cap DOMAIN network_model.device_map :
            infection_state_on(tick.start_map[d], Indicator) = "Vulnerable"
                => (is_infected_with(network_model.device_map[d], Indicator)
                        <=> NetInRangeOfInfection(d, Indicator))

\* the entries of the queue that hold a malware signal carrying the malware
\* from device s to device n
SpreadEntries(queue, s, n, malware) ==
    { i \in DOMAIN queue :
        /\ queue[i].signal.source_id = s
        /\ queue[i].signal.destination_id = n
        /\ queue[i].signal.data = Some([kind |-> "Malware", malware |-> malware]) }

\* device s is to send the malware to device n in the spread phase
SpreadExpected(s, n, malware) ==
    /\ is_infected_with(network_model.device_map[s], malware)
    /\ n # s
    /\ transmits_at_position(
           network_model.device_map[s],
           network_model.device_map[n].real_position_in_meters,
           CONTROL_FREQUENCY)
    /\ is_some(malware.spread_delay)

\* C18: the spread phase at time t enqueues one malware signal carrying m
\* from s to n, created at t + spread_delay(m), for exactly the devices s, n
\* of the device map and the malwares m such that s is infected with m, n
\* is another device, s transmits to n's position on the control frequency
\* and m has a spread delay; it enqueues nothing else.
C18_SpreadSignalsEnqueued ==
    op.name = "spread_malware" =>
        /\ \A s \in DOMAIN network_model.device_map :
              \A n \in DOMAIN network_model.device_map :
                  \A malware \in SpreadMalwares :
                      LET now == SpreadEntries(signal_queue, s, n, malware)
                          before == SpreadEntries(op.before, s, n, malware)
                          at(queue, on) ==
                              { i \in on : queue[i].time =
                                    network_model.current_time
                                        + unwrap(malware.spread_delay) }
                      IN IF SpreadExpected(s, n, malware)
                         THEN /\ Cardinality(now) = Cardinality(before) + 1
                              /\ Cardinality(at(signal_queue, now))
                                    = Cardinality(at(op.before, before)) + 1
                         ELSE Cardinality(now) = Cardinality(before)
        /\ Len(signal_queue)
              = Len(op.before)
                  + Cardinality(
                        { t \in (DOMAIN network_model.device_map)
                                   \X (DOMAIN network_model.device_map)
                                   \X SpreadMalwares :
                            SpreadExpected(t[1], t[2], t[3]) })

\* a spread phase in which a device infected with a delayed malware and with
\* a malware without spread delay reaches one device and not another
C18_Witness ==
    /\ op.name = "spread_malware"
    /\ \E s \in DOMAIN network_model.device_map :
          /\ is_infected_with(network_model.device_map[s], Worm)
          /\ is_infected_with(network_model.device_map[s], DoS)
          /\ \E n \in DOMAIN network_model.device_map :
                /\ SpreadExpected(s, n, Worm)
                /\ SpreadEntries(signal_queue, s, n, Worm) # {}
                /\ SpreadEntries(signal_queue, s, n, DoS) = {}
          /\ \E n \in DOMAIN network_model.device_map \ {s} :
                ~SpreadExpected(s, n, Worm)

-----------------------------------------------------------------------------
(* Claims about the malware payload and the device's clock *)

\* C19: after a device became infected with a malware at device time T, the
\* payload is never applied before the device's time is T + infection_delay,
\* never applied in more than one update, and has been applied once the
\* device's time has passed T + infection_delay (also when the infection
\* delay is 0), as long as the device is not shut down.
C19_PayloadAppliedOnce ==
    \A malware \in PayloadMalwares :
        is_infected_with(drone, malware) =>
            LET due == drone.infection_states[malware][1]
                           + malware.infection_delay
            IN /\ op.applied <= 1
               /\ drone.current_time < due => op.applied = 0
               /\ (drone.current_time > due /\ ~is_shut_down(drone))
                     => op.applied = 1

\* C20: every Device::update() call that does not shut the device down
\* advances the device's local time by exactly ITERATION_TIME, whether or
\* not the movement system is enabled.
C20_UpdateAdvancesLocalTime ==
    (op.name = "update" /\ ~is_shut_down(drone))
        => drone.current_time = op.before.current_time + ITERATION_TIME

-----------------------------------------------------------------------------
(* Claims about the loss of the control signal, under SpecDevice *)

\* the device update() has just been applied to
UpdatedDevice == op.before

\* update() started without a payload-carrying control-frequency signal
UpdatedWithoutControl ==
    /\ op.name = "update"
    /\ ~device_receives_signal_on(UpdatedDevice, CONTROL_FREQUENCY)

\* C21: a device with signal-loss policy Shutdown whose buffer holds no
\* payload-carrying control-frequency signal when update() runs is shut down
\* by that update.
C21_ShutdownOnSignalLoss ==
    (/\ UpdatedWithoutControl
     /\ UpdatedDevice.signal_loss_response.kind = "Shutdown")
        => is_shut_down(drone)

\* a running Shutdown device that had power for the whole update() lost the
\* control signal and is shut down
C21_Witness ==
    /\ UpdatedWithoutControl
    /\ UpdatedDevice.signal_loss_response.kind = "Shutdown"
    /\ UpdatedDevice.power_system.power = MaxDevicePower
    /\ ~is_disabled(UpdatedDevice.movement_system)
    /\ device_receives_signal_on(UpdatedDevice, GPS_L1_FREQUENCY)
    /\ is_shut_down(drone)

\* update() got as far as the step that processes the task or handles the
\* loss of the signal
UpdateReachedTaskStep ==
    /\ op.name = "update"
    /\ update_steps(UpdatedDevice).passive.result = "Ok"
    /\ update_steps(UpdatedDevice).processed.result = "Ok"

\* the device as that step finds it, after the received signals are processed
TaskStepDevice == update_steps(UpdatedDevice).processed.device

\* the task processing the task "as usual" leaves: a Reposition task whose
\* destination is reached, with a GPS fix buffered, reverts to Undefined
TaskAsUsual(device) ==
    IF /\ device.task.task_type = "Reposition"
       /\ is_some(device.task.destination)
       /\ device_receives_signal_on(device, GPS_L1_FREQUENCY)
       /\ distance_squared(device.real_position_in_meters,
                           unwrap(device.task.destination))
              <= DESTINATION_RADIUS * DESTINATION_RADIUS
    THEN DefaultTask
    ELSE device.task

\* the Reconnect task the policy sets, None for Ignore and Shutdown
ReconnectTask(device) ==
    LET response == device.signal_loss_response
        position == device.real_position_in_meters
    IN CASE response.kind = "Hover" -> Some(Task("Reconnect", Some(position)))
         [] response.kind = "Ascend" ->
               Some(Task("Reconnect",
                         Some(Point3D(position.x, position.z + 1))))
         [] response.kind = "ReturnToHome" ->
               Some(Task("Reconnect", Some(response.home_point)))
         [] OTHER -> None

\* C22: when update() runs without a payload-carrying control
\* signal in the buffer the task after the signal-loss step is Reconnect(real
\* position) for Hover, Reconnect(real position raised by 1 on z) for Ascend,
\* Reconnect(home) for ReturnToHome and the unchanged task for Ignore; when
\* such a signal is buffered the policy does not change the task.
C22_SignalLossSetsTask ==
    UpdateReachedTaskStep =>
        IF device_receives_signal_on(UpdatedDevice, CONTROL_FREQUENCY)
        THEN drone.task = TaskAsUsual(TaskStepDevice)
        ELSE IF is_some(ReconnectTask(TaskStepDevice))
        THEN drone.task = unwrap(ReconnectTask(TaskStepDevice))
        ELSE IF UpdatedDevice.signal_loss_response.kind = "Ignore"
        THEN drone.task = TaskStepDevice.task
        ELSE TRUE

-----------------------------------------------------------------------------
(* Claims about returning home, under SpecHome *)

-----------------------------------------------------------------------------
(* Claims about the Scenario, under SpecScenario *)

\* the entries of the list at or before the time of the query that target
\* the device or every device
ScenarioMatching ==
    { i \in DOMAIN op.scenario_entries :
        /\ op.scenario_entries[i][1] <= op.current_time
        /\ op.scenario_entries[i][2] \in {op.destination_id, BROADCAST_ID} }

\* entry i is triggered later than entry j, or with it and later in the list
ScenarioNotBefore(i, j) ==
    \/ op.scenario_entries[j][1] < op.scenario_entries[i][1]
    \/ /\ op.scenario_entries[j][1] = op.scenario_entries[i][1]
       /\ j <= i

\* C24: get_last_task(t, d) returns the task of the scenario entry with the
\* greatest trigger time <= t among the entries whose target is d or the
\* broadcast id (among entries with equal trigger time, the one latest in
\* the list), and none when no such entry exists.
C24_LastTaskIsLatestMatching ==
    op.name = "get_last_task" =>
        IF ScenarioMatching = {} THEN op.result = None
        ELSE \E i \in ScenarioMatching :
                /\ \A j \in ScenarioMatching : ScenarioNotBefore(i, j)
                /\ op.result = Some(op.scenario_entries[i][3])

\* the first entry of the list is returned although a later entry of the
\* list matches too, with an earlier trigger time
C24_Witness ==
    /\ op.name = "get_last_task"
    /\ 1 \in ScenarioMatching
    /\ \E j \in ScenarioMatching :
          j > 1 /\ op.scenario_entries[j][1] < op.scenario_entries[1][1]
    /\ op.result = Some(op.scenario_entries[1][3])

-----------------------------------------------------------------------------
(* Claims about the destination of a received signal, under SpecReceive *)

\* what the RX module makes of the signal receive_signal was called with
RxOutcome ==
    rx_receive_signal(op.before.trx_system.rx_module, op.signal,
                      op.before.current_time, op.is_received)

\* C25: Device::receive_signal rejects with WrongSignalDestination, leaving
\* the receive buffer unchanged, every signal whose destination id is neither
\* the device's own id nor the broadcast id, and hands every signal addressed
\* to its own id or to the broadcast id to the RX module.
C25_OnlyAddressedSignalsReachRX ==
    op.name = "receive_signal" =>
        IF op.signal.destination_id \in {op.before.id, BROADCAST_ID}
        THEN /\ op.result = RxOutcome.result
             /\ drone.trx_system.rx_module = RxOutcome.rx
        ELSE /\ op.result = "WrongSignalDestination"
             /\ drone.trx_system.rx_module = op.before.trx_system.rx_module

\* a signal for another device is rejected that the RX module would have
\* buffered
C25_Witness ==
    /\ op.name = "receive_signal"
    /\ op.signal.destination_id \notin {op.before.id, BROADCAST_ID}
    /\ op.result = "WrongSignalDestination"
    /\ RxOutcome.result = "Ok"
    /\ RxOutcome.rx # drone.trx_system.rx_module

-----------------------------------------------------------------------------
(* Claims about the attacks, under SpecAttack *)

Attacker == network_model.attacker_devices[1]

\* the frequencies on which the attacker's transmission reaches the target
AttackReached ==
    { frequency \in DOMAIN Attacker.device.trx_system.tx_module :
        transmits_at_position(Attacker.device,
                              op.target_device.real_position_in_meters,
                              frequency) }

\* the entries the attack has added, which are the last of the queue
AttackAdded ==
    SubSeq(signal_queue, Len(op.before) + 1, Len(signal_queue))

\* C26: execute_attack of an ElectronicWarfare attacker against a target
\* enqueues exactly one payload-less signal addressed to the target for each
\* frequency on which the attacker's transmission reaches the target and
\* returns Ok when there is at least one such frequency; when no frequency
\* reaches the target it returns TargetOutOfRange and leaves the queue
\* unchanged.
C26_JammingSignalPerReachedFrequency ==
    (/\ op.name = "execute_attack"
     /\ Attacker.attack_type.kind = "ElectronicWarfare")
        => /\ op.result = IF AttackReached = {} THEN "TargetOutOfRange"
                          ELSE "Ok"
           /\ Len(signal_queue) = Len(op.before) + Cardinality(AttackReached)
           /\ SubSeq(signal_queue, 1, Len(op.before)) = op.before
           /\ \A i \in DOMAIN AttackAdded :
                 /\ AttackAdded[i].signal.data = None
                 /\ AttackAdded[i].signal.destination_id = op.target_device.id
                 /\ AttackAdded[i].signal.frequency \in AttackReached
           /\ \A frequency \in AttackReached :
                 Cardinality({ i \in DOMAIN AttackAdded :
                     AttackAdded[i].signal.frequency = frequency }) = 1

\* the attacker transmits on two frequencies and reaches the target on one
C26_Witness ==
    /\ op.name = "execute_attack"
    /\ Attacker.attack_type.kind = "ElectronicWarfare"
    /\ Cardinality(DOMAIN Attacker.device.trx_system.tx_module) = 2
    /\ Cardinality(AttackReached) = 1
    /\ op.before # <<>>
    /\ op.result = "Ok"
    /\ Len(signal_queue) = Len(op.before) + 1

-----------------------------------------------------------------------------
(* Claims about the device ids, under SpecId *)

\* C27: every id issued by DeviceBuilder::build() or Device::default(),
\* including ids issued by calls running concurrently in several threads,
\* differs from every other issued id and from the broadcast id 0, and ids
\* issued one after another are strictly increasing; cloning a device keeps
\* its id.
C27_IdsUniqueAndIncreasing ==
    /\ \A i \in DOMAIN network_model.issued :
          /\ network_model.issued[i] # BROADCAST_ID
          /\ \A j \in DOMAIN network_model.issued :
                i < j => network_model.issued[i] < network_model.issued[j]
    /\ \A i, j \in DOMAIN network_model.devices :
          (/\ i # j
           /\ network_model.devices[i].made_by \in IdConstructors
           /\ network_model.devices[j].made_by \in IdConstructors)
              => network_model.devices[i].id # network_model.devices[j].id
    /\ \A i \in DOMAIN network_model.devices :
          network_model.devices[i].made_by = "clone"
              => network_model.devices[i].id
                     = network_model.devices[network_model.devices[i].of].id

\* two threads took their ids and constructed their devices in the other
\* order, one by build() and one by default(), and a device was cloned
C27_Witness ==
    /\ Len(network_model.devices) >= 3
    /\ network_model.devices[1].made_by = "build"
    /\ network_model.devices[2].made_by = "default"
    /\ network_model.devices[1].id > network_model.devices[2].id
    /\ network_model.devices[3].made_by = "clone"
    /\ op.name = "clone"

-----------------------------------------------------------------------------
(* Claims about the order of iteration, under SpecSpread *)

\* C28: the order in which devices are updated within a tick, and the order
\* in which infected devices and their neighbours are visited during malware
\* spread, is fixed and reproducible: stepping two copies of the same model
\* state, with the same reception outcomes, always yields the same next
\* state.  Here: whatever order the device map of a copy iterates in,
\* spread_malware leaves the queue it has left.
C28_SpreadIndependentOfOrder ==
    op.name = "spread_malware" =>
        \A order \in NetOrders :
            spread_malware([network_model EXCEPT !.device_order = order],
                           op.before) = signal_queue

-----------------------------------------------------------------------------
(* Claims about the diameter, under SpecDiameter *)

\* the total edge distances of the directed paths from u to v that visit no
\* node twice and none of visited
RECURSIVE DiameterPathDistances(_, _, _)
DiameterPathDistances(u, v, visited) ==
    LET graph_map == network_model.connections.graph_map
    IN IF u = v THEN {0}
       ELSE UNION { { graph_map[<<u, w>>].distance + d :
                        d \in DiameterPathDistances(w, v, visited \cup {u}) } :
                    w \in { x \in nodes(graph_map) \ (visited \cup {u}) :
                              <<u, x>> \in DOMAIN graph_map } }

\* the minimum total edge distance of a directed path of each ordered pair
\* of nodes that has one
DiameterPairDistances ==
    LET graph_map == network_model.connections.graph_map
        of(pair) == DiameterPathDistances(pair[1], pair[2], {})
    IN { CHOOSE a \in of(pair) : \A b \in of(pair) : a <= b :
           pair \in { q \in nodes(graph_map) \X nodes(graph_map) :
                        of(q) # {} } }

\* C29: diameter() equals the maximum, over all ordered pairs (u, v) of
\* graph nodes with v reachable from u, of the minimum total edge distance
\* of a directed path from u to v, and 0 for an empty graph; pairs with no
\* path do not contribute.  For five collinear devices spaced 7 m apart
\* with adjacent-only reachability it is 28, not the hop count 4.
C29_DiameterIsLongestShortestPath ==
    op.name = "diameter" =>
        /\ \A d \in DiameterPairDistances : op.result >= d
        /\ IF DOMAIN network_model.connections.graph_map = {}
           THEN op.result = 0
           ELSE op.result \in DiameterPairDistances
        /\ (/\ network_model.connections.topology = "Mesh"
            /\ network_model.device_map
                  = [id \in 1..5 |-> LineDevice(id, 8)]
            /\ DOMAIN network_model.connections.graph_map # {})
              => op.result = 28

\* the diameter of the mesh of five devices in a line, each reaching its
\* neighbours only
C29_Witness ==
    /\ op.name = "diameter"
    /\ network_model.connections.topology = "Mesh"
    /\ network_model.device_map = [id \in 1..5 |-> LineDevice(id, 8)]
    /\ Cardinality(DOMAIN network_model.connections.graph_map) = 8
    /\ op.result = 28

-----------------------------------------------------------------------------
(* Claims about the star, under SpecGraph *)

\* C30: after ConnectionGraph::update in Star topology, for every
\* non-command device d of the device map: the edge command -> d exists if
\* and only if the command device transmits to d's position on the control
\* frequency, the edge d -> command exists if and only if d transmits to the
\* command device's position, and no edge joins two non-command devices;
\* the graph is empty when the command device is not in the device map.
C30_StarEdgesOnlyAtCommand ==
    GraphUpdated("Star") =>
        LET command == network_model.command_device_id
            device_ids == DOMAIN network_model.device_map
        IN IF command \notin device_ids
           THEN network_model.connections.graph_map = <<>>
           ELSE /\ \A d \in device_ids \ {command} :
                     /\ <<command, d>> \in GraphEdges
                           <=> GraphReaches(command, d)
                     /\ <<d, command>> \in GraphEdges
                           <=> GraphReaches(d, command)
                /\ \A e \in GraphEdges :
                     ~(e[1] # command /\ e[2] # command)

\* a star whose drones 2 and 3 transmit to each other's positions and are
\* joined by no edge, drone 2 being joined with the command device both ways
C30_Witness ==
    /\ GraphUpdated("Star")
    /\ {1, 2, 3} \subseteq DOMAIN network_model.device_map
    /\ GraphReaches(2, 3)
    /\ GraphReaches(3, 2)
    /\ {<<1, 2>>, <<2, 1>>} \subseteq GraphEdges
    /\ <<2, 3>> \notin GraphEdges
    /\ <<3, 2>> \notin GraphEdges

-----------------------------------------------------------------------------
(* Claims about the order of the SignalQueue, under SpecQueue *)

\* queue without its entry at position k
QueueWithout(queue, k) ==
    SubSeq(queue, 1, k - 1) \o SubSeq(queue, k + 1, Len(queue))

\* kept is what is left of queue when some of its entries are taken out
RECURSIVE QueueKeepsOrder(_, _)
QueueKeepsOrder(kept, queue) ==
    IF kept = <<>> THEN TRUE
    ELSE IF queue = <<>> THEN FALSE
    ELSE IF Head(kept) = Head(queue)
    THEN QueueKeepsOrder(Tail(kept), Tail(queue))
    ELSE QueueKeepsOrder(kept, Tail(queue))

\* C31: after any sequence of add_entry and remove_old_signals calls the
\* queue is sorted by non-decreasing creation time, and entries with equal
\* creation time keep their insertion order: add_entry puts the new entry
\* behind every entry that is not younger and leaves the others as they
\* were, and remove_old_signals leaves the kept entries in their order.
C31_SortedAndStable ==
    /\ \A i \in DOMAIN signal_queue : \A j \in DOMAIN signal_queue :
          i < j => signal_queue[i].time <= signal_queue[j].time
    /\ op.name = "add_entry" =>
          LET k == 1 + Cardinality({ i \in DOMAIN op.before :
                                       op.before[i].time <= op.time })
          IN /\ Len(signal_queue) = Len(op.before) + 1
             /\ signal_queue[k] = [time |-> op.time, signal |-> op.signal,
                                   delay_map |-> op.delay_map]
             /\ QueueWithout(signal_queue, k) = op.before
    /\ op.name = "remove_old_signals" =>
          QueueKeepsOrder(signal_queue, op.before)

\* an entry added behind a different entry of its own creation time
C31_Witness ==
    /\ op.name = "add_entry"
    /\ Len(signal_queue) = 2
    /\ signal_queue[1] = op.before[1]
    /\ signal_queue[1].time = op.time
    /\ signal_queue[1] # signal_queue[2]

-----------------------------------------------------------------------------
(* Claims about the completion of a task, under SpecDevice *)

\* update() called process_task, directly or through the signal-loss policy
TaskProcessed ==
    /\ UpdateReachedTaskStep
    /\ \/ device_receives_signal_on(TaskStepDevice, CONTROL_FREQUENCY)
       \/ TaskStepDevice.signal_loss_response.kind
              \in {"Ignore", "Hover", "ReturnToHome"}

\* the device as process_task finds it: the policy has set its task
ProcessTaskDevice ==
    IF \/ device_receives_signal_on(TaskStepDevice, CONTROL_FREQUENCY)
       \/ ~is_some(ReconnectTask(TaskStepDevice))
    THEN TaskStepDevice
    ELSE [TaskStepDevice EXCEPT !.task = unwrap(ReconnectTask(TaskStepDevice))]

\* the device as process_task leaves it
ProcessedTaskDevice == update_steps(UpdatedDevice).cleared

ProcessTaskAtDestination ==
    /\ is_some(ProcessTaskDevice.task.destination)
    /\ distance_squared(ProcessTaskDevice.real_position_in_meters,
                        unwrap(ProcessTaskDevice.task.destination))
          <= DESTINATION_RADIUS * DESTINATION_RADIUS

\* C32: when update() processes the task of a device that is within
\* DESTINATION_RADIUS of the task's destination while a GPS payload is
\* buffered, an Attack task makes the device selfdestruct and a Reposition
\* task becomes Undefined (a Reconnect task is left as it is); when no GPS
\* payload is buffered, task processing changes neither the task nor the
\* power state, even at the destination.
C32_TaskCompletedAtDestinationWithGPS ==
    TaskProcessed =>
        IF device_receives_signal_on(ProcessTaskDevice, GPS_L1_FREQUENCY)
        THEN ProcessTaskAtDestination =>
                CASE ProcessTaskDevice.task.task_type = "Attack" ->
                        /\ ProcessedTaskDevice
                              = selfdestruction(ProcessTaskDevice)
                        /\ is_shut_down(drone)
                  [] ProcessTaskDevice.task.task_type = "Reposition" ->
                        /\ ProcessedTaskDevice.task = DefaultTask
                        /\ ProcessedTaskDevice.power_system
                              = ProcessTaskDevice.power_system
                  [] OTHER ->
                        /\ ProcessedTaskDevice.task = ProcessTaskDevice.task
                        /\ ProcessedTaskDevice.power_system
                              = ProcessTaskDevice.power_system
        ELSE /\ ProcessedTaskDevice.task = ProcessTaskDevice.task
             /\ ProcessedTaskDevice.power_system
                   = ProcessTaskDevice.power_system

\* an Attack task completed at its destination by a running device, and the
\* update went on from a device that had the power for it
C32_Witness ==
    /\ TaskProcessed
    /\ device_receives_signal_on(ProcessTaskDevice, GPS_L1_FREQUENCY)
    /\ ProcessTaskAtDestination
    /\ ProcessTaskDevice.task.task_type = "Attack"
    /\ ProcessTaskDevice.power_system.power > 0
    /\ is_shut_down(drone)

-----------------------------------------------------------------------------
(* Claims about the capture check, under SpecRX *)

\* C33: receive_signal on a listened frequency with an empty buffer always
\* succeeds for a red-tier or yellow-tier signal whose quality does not
\* exceed the receiver's maximum: the capture check never rejects such a
\* signal with SignalNotReceived.
C33_RedAndYellowAlwaysCaptured ==
    (/\ op.name = "receive_signal"
     /\ op.before.received_signals = <<>>
     /\ is_some(max_signal_level_on(op.before, op.signal.frequency))
     /\ (is_red(op.signal.level) \/ is_yellow(op.signal.level))
     /\ op.signal.level
           <= unwrap(max_signal_level_on(op.before, op.signal.frequency)))
        => /\ op.result = "Ok"
           /\ rx_module.received_signals = << <<op.time, op.signal>> >>

\* the entries of the buffer on a frequency
RxEntriesOn(rx, frequency) ==
    { i \in DOMAIN rx.received_signals :
        rx.received_signals[i][2].frequency = frequency }

\* C34: between two clears of the receive buffer, the quality of the signal
\* buffered on a frequency never decreases: an accepted signal replaces the
\* one buffered on its own frequency only when its quality is not lower, and
\* the entries of all other frequencies are left untouched; so once a noise
\* signal is buffered on the control frequency, no weaker payload signal can
\* restore the control link in that tick.
C34_BufferedQualityNeverDecreases ==
    op.name = "receive_signal" =>
        /\ \A frequency \in RxFrequencies :
              LET before == received_signal_on(op.before, frequency)
                  after == received_signal_on(rx_module, frequency)
              IN /\ Cardinality(RxEntriesOn(rx_module, frequency)) <= 1
                 /\ frequency # op.signal.frequency => after = before
                 /\ is_some(before) =>
                       /\ is_some(after)
                       /\ unwrap(after)[2].level >= unwrap(before)[2].level
                 /\ after # before =>
                       /\ op.result \in {"Ok", "NoiseReceived"}
                       /\ unwrap(after)[2].level = op.signal.level
        /\ LET buffered == received_signal_on(op.before, CONTROL_FREQUENCY)
           IN (/\ is_some(buffered)
               /\ ~is_some(unwrap(buffered)[2].data)
               /\ op.signal.frequency = CONTROL_FREQUENCY
               /\ op.signal.level < unwrap(buffered)[2].level)
                 => /\ op.result \in {"SignalTooWeak", "SignalNotReceived"}
                    /\ rx_module = op.before
                    /\ ~receives_signal_on(rx_module, CONTROL_FREQUENCY)

\* a payload signal within the maximum, drawn as received, is rejected
\* because noise of a higher level is buffered on the control frequency,
\* while the buffer holds a signal of the other frequency
C34_Witness ==
    /\ op.name = "receive_signal"
    /\ op.is_received
    /\ op.signal.frequency = CONTROL_FREQUENCY
    /\ is_some(op.signal.data)
    /\ op.signal.level
          <= unwrap(max_signal_level_on(op.before, CONTROL_FREQUENCY))
    /\ is_some(received_signal_on(op.before, GPS_L1_FREQUENCY))
    /\ is_some(received_signal_on(op.before, CONTROL_FREQUENCY))
    /\ ~is_some(unwrap(received_signal_on(op.before, CONTROL_FREQUENCY))[2].data)
    /\ op.result = "SignalTooWeak"
    /\ ~receives_signal_on(rx_module, CONTROL_FREQUENCY)

-----------------------------------------------------------------------------
(* Claims about the power of a Device, under SpecDevice *)

\* C35: in every reachable state a device's power is at most its max power,
\* and no operation ever increases a device's power: over any sequence of
\* update() calls the power is non-increasing and, once 0, stays 0.
C35_PowerNeverIncreases ==
    /\ drone.power_system.power <= drone.power_system.max_power
    /\ [][/\ drone'.power_system.power <= drone'.power_system.max_power
          /\ drone'.power_system.power <= drone.power_system.power
          /\ drone.power_system.power = 0 => drone'.power_system.power = 0]_vars

\* update() of a device that an earlier update() left without power
C35_Witness ==
    /\ op.name = "update"
    /\ op.updates = 3
    /\ op.before.power_system = DefaultPowerSystem
    /\ op.result = "NoPowerLeft"
    /\ drone.power_system.power = 0

-----------------------------------------------------------------------------
(* Claims about the receive buffer of a Device, under SpecDevice *)

\* C36: after every Device::update() call, whether it returns Ok or any
\* error, the device's receive buffer is empty, so a signal delivered in one
\* tick is never processed in a later tick.
C36_BufferEmptyAfterUpdate ==
    op.name = "update" =>
        drone.trx_system.rx_module.received_signals = <<>>

\* an update() that failed before it reached clear_received_signals, on a
\* device that had power and buffered signals
C36_Witness ==
    /\ op.name = "update"
    /\ op.result = "NoPowerLeft"
    /\ op.before.power_system.power > 0
    /\ Len(op.before.trx_system.rx_module.received_signals) = 2
    /\ update_steps(op.before).passive.result = "Ok"
    /\ drone.trx_system.rx_module.received_signals = <<>>

-----------------------------------------------------------------------------
(* Claims about the delivery of queued signals, under SpecNet *)

\* the queue entry is addressed to one device and falls due at a tick time
NetUnicastEntry(entry) ==
    /\ entry.signal.destination_id # BROADCAST_ID
    /\ (entry.time + DelayFor(entry, entry.signal.destination_id))
          % ITERATION_TIME = 0

NetDueTime(entry) ==
    entry.time + DelayFor(entry, entry.signal.destination_id)

\* C37 in the states: every queue entry that the orchestrator enqueues for a single
\* destination d, and whose due time creation_time + delay is a multiple of
\* ITERATION_TIME, is passed to d's receive_signal in exactly one tick (the
\* tick whose time equals the due time, provided d is still in the device
\* map) and is pruned in that same tick after the delivery phase, never
\* before it; no signal is delivered to the same device in two different
\* ticks.  Here: no entry is in the queue past its due tick or is enqueued
\* too late for it, the entries due in a tick are exactly what the device
\* is offered in it, and the pruning of that tick removes them.
NetDeliveredInDueTick ==
    /\ \A i \in DOMAIN signal_queue :
          NetUnicastEntry(signal_queue[i]) =>
              /\ NetDueTime(signal_queue[i]) >= network_model.current_time
              /\ pc = "advance_time" =>
                    NetDueTime(signal_queue[i]) > network_model.current_time
              /\ (/\ pc \in {"execute_attacks", "deliver_signals",
                              "device_update"}
                  /\ NetDueTime(signal_queue[i]) = network_model.current_time
                  /\ \E k \in 1..tick.index :
                        network_model.device_order[k]
                            = signal_queue[i].signal.destination_id)
                    => \E j \in DOMAIN tick.offered[
                                    signal_queue[i].signal.destination_id] :
                          tick.offered[signal_queue[i].signal.destination_id][j]
                              = signal_queue[i].signal
    /\ (NetTickStarted /\ pc \in {"remove_shut_down_devices",
                                   "update_connections_graph",
                                   "remove_old_signals"}) =>
          \A d \in tick.start_ids :
              LET ToDevice(signal) == signal.destination_id = d
                  DueNow(entry) ==
                      /\ entry.signal.destination_id = d
                      /\ NetDueTime(entry) = network_model.current_time
              IN SeqFilter(tick.offered[d], ToDevice)
                     = SignalsOfEntries(signal_queue, DueNow)

\* an entry that is not yet due, or is due in this tick and not yet pruned,
\* stays in the queue
NetKeptUntilDue ==
    \A i \in DOMAIN signal_queue :
        (/\ NetUnicastEntry(signal_queue[i])
         /\ \/ NetDueTime(signal_queue[i]) > network_model.current_time
            \/ pc # "remove_old_signals")
            => \E j \in DOMAIN signal_queue' :
                  signal_queue'[j] = signal_queue[i]

\* C37: every queue entry that the orchestrator enqueues for a single
\* destination d, and whose due time creation_time + delay is a multiple of
\* ITERATION_TIME, is passed to d's receive_signal in exactly one tick (the
\* tick whose time equals the due time, provided d is still in the device
\* map) and is pruned in that same tick after the delivery phase, never
\* before it; no signal is delivered to the same device in two different
\* ticks.
C37_DeliveredInDueTickOnly ==
    []NetDeliveredInDueTick /\ [][NetKeptUntilDue]_vars

\* a drone has been offered a signal that was enqueued for it in an earlier
\* tick with a delay, and the signal is still in the queue, to be pruned
C37_Witness ==
    /\ NetTickStarted
    /\ pc = "remove_old_signals"
    /\ \E i \in DOMAIN signal_queue :
          /\ NetUnicastEntry(signal_queue[i])
          /\ signal_queue[i].time < network_model.current_time
          /\ DelayFor(signal_queue[i], signal_queue[i].signal.destination_id) > 0
          /\ NetDueTime(signal_queue[i]) = network_model.current_time
          /\ signal_queue[i].signal.destination_id \in tick.start_ids
          /\ \E j \in DOMAIN tick.offered[
                          signal_queue[i].signal.destination_id] :
                tick.offered[signal_queue[i].signal.destination_id][j]
                    = signal_queue[i].signal

-----------------------------------------------------------------------------
(* Claims about the scheduling of task signals, under SpecSchedule *)

\* the scheduling phase has just run: at construction or in an update
ScheduleDone == op.name \in {"set_initial_state", "add_scenario_signals_to_queue"}

\* the queue holds a task signal of the command device for d, made now
ScheduledTaskFor(d) ==
    \E i \in DOMAIN signal_queue :
        /\ signal_queue[i].time = network_model.current_time
        /\ signal_queue[i].signal.source_id = network_model.command_device_id
        /\ signal_queue[i].signal.destination_id = d
        /\ is_some(signal_queue[i].signal.data)
        /\ unwrap(signal_queue[i].signal.data).kind = "SetTask"

ScheduleDirect(d) ==
    /\ network_model.command_device_id \in DOMAIN network_model.device_map
    /\ d \in DOMAIN network_model.device_map
    /\ d # network_model.command_device_id
    /\ is_some(get_last_task(network_model.scenario,
                             network_model.current_time, d))
    /\ transmits_at_position(
           network_model.device_map[network_model.command_device_id],
           network_model.device_map[d].real_position_in_meters,
           CONTROL_FREQUENCY)

\* C38: after the scheduling phase the queue holds a SetTask signal made in
\* this tick for device d exactly when the command device is in the map, d is
\* another device of the map, the scenario has a task for d (or for everyone)
\* at or before the current time, and the command device itself transmits to
\* the place of d on the control frequency, whatever the topology
C38_TaskSignalIffDirectReach ==
    ScheduleDone =>
        \A d \in NetDeviceIds \cup {BROADCAST_ID} :
            ScheduledTaskFor(d) <=> ScheduleDirect(d)

\* a mesh in which a drone is joined to the command device through another
\* drone only: it gets no task signal, the drone in between gets one
C38_Witness ==
    /\ op.name = "add_scenario_signals_to_queue"
    /\ network_model.connections.topology = "Mesh"
    /\ network_model.command_device_id \in DOMAIN network_model.device_map
    /\ \E d, relay \in DOMAIN network_model.device_map :
          /\ d # network_model.command_device_id
          /\ d \in DOMAIN dijkstra(network_model.connections.graph_map,
                                    network_model.command_device_id)
          /\ is_some(get_last_task(network_model.scenario,
                                   network_model.current_time, d))
          /\ ~ScheduleDirect(d)
          /\ ~ScheduledTaskFor(d)
          /\ ScheduleDirect(relay)
          /\ ScheduledTaskFor(relay)

\* the graph is the one built from the device map of this state
ScheduleGraphCurrent == pc \notin {"update_connections_graph", "panicked"}

\* C39: add_scenario_signals_to_queue never panics: whenever the graph is
\* the one of the current device map and the command device makes a task
\* signal for a device, the command device is a node of the graph and the
\* Dijkstra map from it holds that device, so the unwraps of the unicast
\* delay map succeed
C39_SchedulingNeverPanics ==
    /\ pc # "panicked"
    /\ ScheduleGraphCurrent =>
          \A d \in NetDeviceIds :
              ScheduleDirect(d) =>
                  /\ contains_node(network_model.connections.graph_map,
                                   network_model.command_device_id)
                  /\ d \in DOMAIN dijkstra(
                                      network_model.connections.graph_map,
                                      network_model.command_device_id)

\* a task signal went through the unicast delay map of the rebuilt graph
\* after the drone it is for had moved
C39_Witness ==
    /\ op.name = "add_scenario_signals_to_queue"
    /\ \E d \in DOMAIN network_model.device_map :
          /\ ScheduleDirect(d)
          /\ ScheduledTaskFor(d)
          /\ network_model.device_map[d].real_position_in_meters
                 # NetPosition(d)
          /\ contains_node(network_model.connections.graph_map,
                           network_model.command_device_id)
          /\ \E i \in DOMAIN signal_queue :
                /\ signal_queue[i].time = network_model.current_time
                /\ signal_queue[i].signal.source_id
                       = network_model.command_device_id
                /\ signal_queue[i].signal.destination_id = d
                /\ signal_queue[i].delay_map =
                       unicast_delay_map_from_inside_network(
                           network_model.connections.graph_map,
                           network_model.command_device_id, d,
                           network_model.delay_multiplier).delay_map

-----------------------------------------------------------------------------
(* Claims about a shut down attacker device or GPS source, under           *)
(* SpecShutdown                                                            *)

\* the entries of the queue that the device with this id has sent
ShutdownEntriesOf(queue, source_id) ==
    LET FromSource(entry) == entry.signal.source_id = source_id
    IN SeqFilter(queue, FromSource)

\* the attacker devices and the GPS source that are shut down
ShutdownSources(model) ==
    { model.attacker_devices[i].device.id :
        i \in { j \in DOMAIN model.attacker_devices :
                  is_shut_down(model.attacker_devices[j].device) } }
        \cup (IF is_shut_down(model.gps) THEN {model.gps.id} ELSE {})

\* C40: an attacker device or a GPS source whose power is zero, which it
\* is from the update in which the power ran out, adds no entry to the queue
\* in any later step, stays shut down and stays in the model
C40_ShutDownSourceIsSilent ==
    [][/\ \A source_id \in ShutdownSources(network_model) :
             /\ Len(ShutdownEntriesOf(signal_queue', source_id))
                    <= Len(ShutdownEntriesOf(signal_queue, source_id))
             /\ source_id \in ShutdownSources(network_model')
       /\ Len(network_model'.attacker_devices)
              = Len(network_model.attacker_devices)
       /\ network_model'.gps.id = network_model.gps.id]_vars

\* a tick has run to its end with the attacker device and the GPS source
\* shut down: the attack on drone 2, which is within reach of the TX module
\* the attacker device had, and the GPS scheduling have run and the queue
\* holds nothing of the two
C40_Witness ==
    /\ pc = "spread_malware"
    /\ tick.count = MaxTicks
    /\ ShutdownSources(network_model) = {8, 9}
    /\ 2 \in DOMAIN network_model.device_map
    /\ transmits_at_position(
           NetAttackerDevice([kind |-> "ElectronicWarfare"]).device,
           network_model.device_map[2].real_position_in_meters,
           CONTROL_FREQUENCY)
    /\ \E i \in DOMAIN tick.log :
          tick.log[i].phase = "execute_attacks" /\ tick.log[i].device = 2
    /\ \E i \in DOMAIN tick.log :
          tick.log[i].phase = "add_gps_signals_to_queue"
    /\ ShutdownEntriesOf(signal_queue, 8) = <<>>
    /\ ShutdownEntriesOf(signal_queue, 9) = <<>>

====
